---------------------------- MODULE Spec2Model ----------------------------
(***************************************************************************)
(* A model of furl (URL parsing and manipulation): the Furl object of      *)
(* furl/core.py with its Path (furl/path.py), Query (furl/query.py) and    *)
(* Fragment (furl/fragment.py), and the helpers of furl/helpers.py.        *)
(*                                                                         *)
(* Python strings are sequences of one-character strings, so that          *)
(* splitting, percent-decoding and percent-encoding are computed           *)
(* character by character as the code computes them.  S("a/b") is the      *)
(* Python string 'a/b'.  Python's None is the value None below; it differs *)
(* from every Python string because its only element is not a character.   *)
(***************************************************************************)
EXTENDS Integers, Sequences, FiniteSets, TLC

S(str) == [i \in 1..Len(str) |-> SubSeq(str, i, i)]

\* A local assignment: Op applied to the value v, computed once.
With(v, Op(_)) == Op(v)

None == <<"None">>

\* The _absent sentinel of core.py and fragment.py: "parameter not given".
Absent == <<"_absent">>

NonePort == -1

(***************************************************************************)
(* Python str primitives.                                                  *)
(***************************************************************************)
Contains(s, c) == \E i \in 1..Len(s) : s[i] = c

\* s.find(c) for a one-character c, 1-based; 0 when c does not occur.
Find(s, c) ==
    IF Contains(s, c)
    THEN CHOOSE i \in 1..Len(s) : s[i] = c /\ \A j \in 1..(i-1) : s[j] # c
    ELSE 0

\* s.rfind(c), 1-based; 0 when c does not occur.
RFind(s, c) ==
    IF Contains(s, c)
    THEN CHOOSE i \in 1..Len(s) : s[i] = c /\ \A j \in (i+1)..Len(s) : s[j] # c
    ELSE 0

\* s[:n]
Take(s, n) == SubSeq(s, 1, IF n > Len(s) THEN Len(s) ELSE n)

\* s[n:]  (n counted from 0 as in Python)
Drop(s, n) == SubSeq(s, n + 1, Len(s))

StartsWith(s, p) == Len(s) >= Len(p) /\ Take(s, Len(p)) = p

EndsWith(s, p) == Len(s) >= Len(p) /\ Drop(s, Len(s) - Len(p)) = p

\* sub in s
HasSub(s, sub) == \E i \in 0..(Len(s) - Len(sub)) : SubSeq(s, i + 1, i + Len(sub)) = sub

\* s.split(c), given i = s.find(c)
RECURSIVE Split(_, _)
SplitAt(s, c, i) ==
    IF i = 0 THEN <<s>> ELSE <<SubSeq(s, 1, i - 1)>> \o Split(Drop(s, i), c)

Split(s, c) == SplitAt(s, c, Find(s, c))

\* The two parts of s around position i, or s alone when i = 0.
CutAt(s, i) == IF i = 0 THEN <<s>> ELSE <<SubSeq(s, 1, i - 1), Drop(s, i)>>

\* s.split(c, 1)
Split1(s, c) == CutAt(s, Find(s, c))

\* s.rsplit(c, 1)
RSplit1(s, c) == CutAt(s, RFind(s, c))

\* sep.join(parts)
RECURSIVE StrJoin(_, _)
StrJoin(parts, sep) ==
    IF Len(parts) = 0 THEN <<>>
    ELSE IF Len(parts) = 1 THEN parts[1]
    ELSE parts[1] \o sep \o StrJoin(Tail(parts), sep)

\* ''.join(parts)
Concat(parts) == StrJoin(parts, <<>>)

\* s.replace(old, new) for a one-character old
RECURSIVE Replace1(_, _, _)
Replace1(s, c, new) ==
    IF Len(s) = 0 THEN <<>>
    ELSE (IF s[1] = c THEN new ELSE <<s[1]>>) \o Replace1(Tail(s), c, new)

\* s.replace(old, new) for any non-empty old, scanning left to right
RECURSIVE Replace(_, _, _)
Replace(s, old, new) ==
    IF Len(s) < Len(old) THEN s
    ELSE IF Take(s, Len(old)) = old THEN new \o Replace(Drop(s, Len(old)), old, new)
    ELSE <<s[1]>> \o Replace(Tail(s), old, new)

(***************************************************************************)
(* Character codes.  chr/ord over the bytes 0..255: printable ASCII is     *)
(* itself, every other byte b (and the backquote, which a TLA+ string      *)
(* cannot hold) is the one-element token "\xb".  Printable lists the       *)
(* bytes 32..126 in order, with a blank in the backquote's place.          *)
(***************************************************************************)
Printable ==
    " !\"#$%&'()*+,-./0123456789:;<=>?@ABCDEFGHIJKLMNOPQRSTUVWXYZ[\\]^_ abcdefghijklmnopqrstuvwxyz{|}~"

Chr(n) ==
    IF n >= 32 /\ n <= 126 /\ n # 96 THEN SubSeq(Printable, n - 31, n - 31)
    ELSE "\\x" \o ToString(n)

Ord(c) == CHOOSE n \in 0..255 : Chr(n) = c

\* The characters of a string, as a set.
Chars(str) == {SubSeq(str, i, i) : i \in 1..Len(str)}

Digits == Chars("0123456789")

UpperLetters == Chars("ABCDEFGHIJKLMNOPQRSTUVWXYZ")

LowerLetters == Chars("abcdefghijklmnopqrstuvwxyz")

Letters == UpperLetters \cup LowerLetters

\* str.lower()
Lower(s) == [i \in 1..Len(s) |-> IF s[i] \in UpperLetters THEN Chr(Ord(s[i]) + 32) ELSE s[i]]

\* str.isdigit(): non-empty and all digits
IsDigit(s) == Len(s) > 0 /\ \A i \in 1..Len(s) : s[i] \in Digits

\* int(s) for a string of digits
RECURSIVE ParseInt(_)
ParseInt(s) ==
    IF Len(s) = 0 THEN 0
    ELSE 10 * ParseInt(SubSeq(s, 1, Len(s) - 1)) + (Ord(s[Len(s)]) - 48)

\* str(n) for an integer n >= 0
RECURSIVE IntStr(_)
IntStr(n) == IF n < 10 THEN <<Chr(48 + n)>> ELSE IntStr(n \div 10) \o <<Chr(48 + (n % 10))>>

HexDigitsUpper == "0123456789ABCDEF"

HexDigitsLower == "0123456789abcdef"

HexChars == Chars("0123456789ABCDEFabcdef")

HexVal(c) ==
    CHOOSE n \in 0..15 :
        c = SubSeq(HexDigitsUpper, n + 1, n + 1) \/ c = SubSeq(HexDigitsLower, n + 1, n + 1)

(***************************************************************************)
(* urllib.unquote, urllib.quote and urllib.quote_plus of Python 2.         *)
(***************************************************************************)
\* One '%'-separated item of unquote: the two hex digits that follow a '%'
\* are replaced by their byte; anything else keeps its '%'.
UnquoteItem(item) ==
    IF Len(item) >= 2 /\ item[1] \in HexChars /\ item[2] \in HexChars
    THEN <<Chr(16 * HexVal(item[1]) + HexVal(item[2]))>> \o Drop(item, 2)
    ELSE <<"%">> \o item

UnquoteBits(bits) ==
    bits[1] \o Concat([i \in 1..(Len(bits) - 1) |-> UnquoteItem(bits[i + 1])])

unquote(s) == UnquoteBits(Split(s, "%"))

AlwaysSafe == Letters \cup Digits \cup {"_", ".", "-"}

\* '%XX' for the byte n
QuoteByte(n) ==
    <<"%", SubSeq(HexDigitsUpper, (n \div 16) + 1, (n \div 16) + 1),
           SubSeq(HexDigitsUpper, (n % 16) + 1, (n % 16) + 1)>>

QuoteChar(c, safe) ==
    IF c \in AlwaysSafe \/ Contains(safe, c) THEN <<c>> ELSE QuoteByte(Ord(c))

quote(s, safe) == Concat([i \in 1..Len(s) |-> QuoteChar(s[i], safe)])

quote_plus(s, safe) ==
    IF Contains(s, " ")
    THEN Replace1(quote(s, safe \o <<" ">>), " ", <<"+">>)
    ELSE quote(s, safe)

(***************************************************************************)
(* Results of calls that may raise.  err is "none" or the name of the      *)
(* exception that escaped the call; obj is the object as the call left it. *)
(***************************************************************************)
Ok(obj) == [err |-> "none", obj |-> obj]

Raise(kind, obj) == [err |-> kind, obj |-> obj]

\* Python truth value of a string-or-None
Truthy(s) == s # None /\ Len(s) > 0

\* (s or '')
OrEmpty(s) == IF Truthy(s) THEN s ELSE <<>>

\* (s or None)
OrNone(s) == IF Truthy(s) THEN s ELSE None

(***************************************************************************)
(* urlparse.urlsplit and urlparse.urlunsplit of the Python 2 standard      *)
(* library, as furl/helpers.py and furl/core.py call them.                 *)
(***************************************************************************)
scheme_chars == Letters \cup Digits \cup {"+", "-", "."}

uses_netloc ==
    { S("ftp"), S("http"), S("gopher"), S("nntp"), S("telnet"), S("imap"), S("wais"),
      S("file"), S("mms"), S("https"), S("shttp"), S("snews"), S("prospero"),
      S("rtsp"), S("rtspu"), S("rsync"), S(""), S("svn"), S("svn+ssh"), S("sftp"),
      S("nfs"), S("git"), S("git+ssh") }

\* Position (1-based) of the first of '/', '?', '#' at or after start, or
\* Len(url) + 1 when there is none.
NetlocEnd(url, start) ==
    IF \E i \in start..Len(url) : url[i] \in {"/", "?", "#"}
    THEN CHOOSE i \in start..Len(url) :
            /\ url[i] \in {"/", "?", "#"}
            /\ \A j \in start..(i - 1) : url[j] \notin {"/", "?", "#"}
    ELSE Len(url) + 1

\* urlparse._splitnetloc(url, 2)
splitnetloc(url) ==
    With(NetlocEnd(url, 3), LAMBDA delim :
        <<SubSeq(url, 3, delim - 1), SubSeq(url, delim, Len(url))>>)

\* The scheme urlparse.urlsplit recognises in front of the ':' at idx, and
\* the rest of the url; <<'', url>> when it recognises none.
SplitSchemeAt(url, idx) ==
    LET pre  == SubSeq(url, 1, idx - 1)
        rest == Drop(url, idx)
    IN  IF idx <= 1 THEN <<<<>>, url>>
        ELSE IF pre = S("http") THEN <<pre, rest>>
        ELSE IF (\A k \in 1..Len(pre) : pre[k] \in scheme_chars)
                /\ (Len(rest) = 0 \/ \E k \in 1..Len(rest) : rest[k] \notin Digits)
             THEN <<Lower(pre), rest>>
        ELSE <<<<>>, url>>

SplitScheme(url) == SplitSchemeAt(url, Find(url, ":"))

\* '[' without ']' or ']' without '[' in the netloc
UnbalancedBrackets(netloc) == Contains(netloc, "[") # Contains(netloc, "]")

\* urlparse.urlsplit(url): err is "ValueError" for an unbalanced '[' or ']'
\* in the netloc.
urlparse_urlsplit(url) ==
    With(SplitScheme(url), LAMBDA ss :
    With(IF Take(ss[2], 2) = S("//") THEN splitnetloc(ss[2]) ELSE <<<<>>, ss[2]>>, LAMBDA nl :
    With(Split1(nl[2], "#"), LAMBDA fr :
    With(Split1(fr[1], "?"), LAMBDA qu :
        [err      |-> IF UnbalancedBrackets(nl[1]) THEN "ValueError" ELSE "none",
         scheme   |-> ss[1],
         netloc   |-> nl[1],
         path     |-> qu[1],
         query    |-> IF Len(qu) = 2 THEN qu[2] ELSE <<>>,
         fragment |-> IF Len(fr) = 2 THEN fr[2] ELSE <<>>]))))

\* urlparse.urlunsplit((scheme, netloc, url, query, fragment)); scheme and
\* netloc may be None.
urlparse_urlunsplit(scheme, netloc, path, query, fragment) ==
    (IF Truthy(scheme) THEN scheme \o <<":">> ELSE <<>>)
    \o (IF Truthy(netloc)
           \/ (Truthy(scheme) /\ scheme \in uses_netloc /\ Take(path, 2) # S("//"))
        THEN S("//") \o OrEmpty(netloc)
             \o (IF Len(path) > 0 /\ path[1] # "/" THEN <<"/">> ELSE <<>>) \o path
        ELSE path)
    \o (IF Len(query) > 0 THEN <<"?">> \o query ELSE <<>>)
    \o (IF Len(fragment) > 0 THEN <<"#">> \o fragment ELSE <<>>)

(***************************************************************************)
(* furl/helpers.py                                                         *)
(***************************************************************************)
_get_scheme(url) ==
    With(Find(url, ":"), LAMBDA idx :
        IF idx > 1 THEN SubSeq(url, 1, idx - 1) ELSE <<>>)

_set_scheme(url, newscheme) ==
    With(_get_scheme(url), LAMBDA scheme :
        IF Len(scheme) > 0 THEN newscheme \o Drop(url, Len(scheme)) ELSE url)

\* urlsplit without line 96: the scheme stays the 'http' that line 95 put in.
urlsplit_scheme_not_restored(url) ==
    IF ~HasSub(url, S("://")) THEN urlparse_urlsplit(url)
    ELSE urlparse_urlsplit(_set_scheme(url, S("http")))

urlsplit(url) ==
    IF ~HasSub(url, S("://")) THEN urlparse_urlsplit(url)
    ELSE [urlparse_urlsplit(_set_scheme(url, S("http"))) EXCEPT !.scheme = _get_scheme(url)]

\* is_valid_port without the test for 0
is_valid_port_zero_accepted(port) ==
    IF ~IsDigit(port) THEN FALSE
    ELSE With(ParseInt(port), LAMBDA n : ~(n > 65535))

is_valid_port(port) ==
    IF ~IsDigit(port) THEN FALSE
    ELSE With(ParseInt(port), LAMBDA n : ~(n = 0 \/ n > 65535))

\* One round of the loop of join_path_segments: finals after <segments>.
JoinStep(finals, segments) ==
    IF Len(segments) = 0 \/ segments = << <<>> >> THEN finals
    ELSE IF Len(finals) = 0 THEN segments
    ELSE IF finals[Len(finals)] = <<>> /\ (segments[1] # <<>> \/ Len(segments) > 1)
         THEN SubSeq(finals, 1, Len(finals) - 1) \o segments
    ELSE IF finals[Len(finals)] # <<>> /\ segments[1] = <<>> /\ Len(segments) > 1
         THEN finals \o Tail(segments)
    ELSE finals \o segments

\* join_path_segments(a, b)
join_path_segments(a, b) == JoinStep(JoinStep(<<>>, a), b)

\* remove_path_segments from line 171 on: <segments> and <remove> after the
\* [''] fix-ups, <toremove> the suffix to take away.
RemoveSuffix(segments, remove, toremove) ==
    LET keep == SubSeq(segments, 1, Len(segments) - Len(toremove))
    IN  IF remove = segments THEN <<>>
        ELSE IF Len(remove) > Len(segments) THEN segments
        ELSE IF Len(toremove) > 0
                /\ toremove = SubSeq(segments, Len(segments) - Len(toremove) + 1, Len(segments))
             THEN (IF remove[1] # <<>> /\ Len(keep) > 0 THEN Append(keep, <<>>) ELSE keep)
        ELSE segments

\* [''] stands for ['', '']
FixEmpty(segments) == IF segments = << <<>> >> THEN << <<>>, <<>> >> ELSE segments

\* remove_path_segments that keeps the leading '' of <remove> in the suffix
remove_path_segments_leading_kept(segments, remove) ==
    With(FixEmpty(remove), LAMBDA rem : RemoveSuffix(FixEmpty(segments), rem, rem))

remove_path_segments(segments, remove) ==
    With(FixEmpty(remove), LAMBDA rem :
        RemoveSuffix(FixEmpty(segments), rem,
                     IF Len(rem) > 1 /\ rem[1] = <<>> THEN Tail(rem) ELSE rem))

(***************************************************************************)
(* furl/path.py: a Path is [segments, _isabsolute].  <forced> is the value *)
(* of self._force_absolute(self) when the method runs: the owner decides   *)
(* it (always False for a fragment path).                                  *)
(***************************************************************************)
SAFE_SEGMENT_CHARS == S(":@-._~!$&'()*+,;=")

EmptyPath == [segments |-> <<>>, _isabsolute |-> FALSE]

\* Path.__nonzero__
Path_nonzero(p) == Len(p.segments) > 0

\* Path.isabsolute (getter)
Path_isabsolute(p, forced) == forced \/ p._isabsolute

\* Path.isabsolute (setter): AttributeError when the owner forces it
Path_set_isabsolute(p, isabsolute, forced) ==
    IF forced THEN Raise("AttributeError", p)
    ELSE Ok([p EXCEPT !._isabsolute = isabsolute])

Path_segments_from_path(path) ==
    With(Split(path, "/"), LAMBDA segments :
        [i \in 1..Len(segments) |-> unquote(segments[i])])

Path_path_from_segments(segments, quoted) ==
    With(Contains(Concat(segments), "%"), LAMBDA haspercent :
        StrJoin(IF quoted /\ ~haspercent
                THEN [i \in 1..Len(segments) |-> quote(segments[i], SAFE_SEGMENT_CHARS)]
                ELSE IF ~quoted /\ haspercent
                THEN [i \in 1..Len(segments) |-> unquote(segments[i])]
                ELSE segments,
                <<"/">>))

\* Path.__str__
Path_str(p, forced) ==
    Path_path_from_segments(
        IF Path_isabsolute(p, forced)
        THEN (IF Len(p.segments) = 0 THEN << <<>>, <<>> >> ELSE << <<>> >> \o p.segments)
        ELSE p.segments,
        TRUE)

\* Path.load from line 78 on, once <segments> is computed.
Path_load_segments(segments, forced) ==
    LET isabs == IF forced THEN Len(segments) > 0
                 ELSE Len(segments) > 0 /\ segments[1] = <<>>
        segs  == IF (forced \/ isabs) /\ Len(segments) > 1 /\ segments[1] = <<>>
                 THEN Tail(segments) ELSE segments
    IN  [segments |-> [i \in 1..Len(segs) |-> unquote(segs[i])], _isabsolute |-> isabs]

\* Path.load(path) for a path string
Path_load(path, forced) ==
    Path_load_segments(IF Len(path) = 0 THEN <<>> ELSE Path_segments_from_path(path), forced)

\* Path.load(path) for a list of segments
Path_load_list(path, forced) == Path_load_segments(path, forced)

\* Path.add from line 100 on, once <newsegments> is computed.
Path_add_segments(p, newsegments, forced) ==
    LET news == IF p.segments = << <<>> >> /\ Len(newsegments) > 0 /\ newsegments[1] # <<>>
                THEN << <<>> >> \o newsegments ELSE newsegments
    IN  Path_load_list(join_path_segments(p.segments, news), forced)

\* Path.add(path) for a path string
Path_add(p, path, forced) == Path_add_segments(p, Path_segments_from_path(path), forced)

\* Path.add(path) for a list of segments
Path_add_list(p, path, forced) == Path_add_segments(p, path, forced)

\* Path.remove from line 118 on, once <segments> is computed.
Path_remove_segments(p, segments, forced) ==
    LET base == (IF Path_isabsolute(p, forced) THEN << <<>> >> ELSE <<>>) \o p.segments
    IN  Path_load_list(remove_path_segments(base, segments), forced)

\* Path.remove(True)
Path_remove_all(p, forced) == Path_load(<<>>, forced)

\* Path.remove(path) for a path string
Path_remove(p, path, forced) == Path_remove_segments(p, Path_segments_from_path(path), forced)

\* Path.remove(path) for a list of segments
Path_remove_list(p, path, forced) == Path_remove_segments(p, path, forced)

(***************************************************************************)
(* furl/multidict.py, OneDimensionalOrderedMultidict: the ordered          *)
(* multimap behind Query.params, a sequence of <<key, value>> pairs.       *)
(***************************************************************************)
RECURSIVE SelectPairs(_, _)
SelectPairs(items, keys) ==
    IF Len(items) = 0 THEN <<>>
    ELSE (IF items[1][1] \in keys THEN <<items[1]>> ELSE <<>>) \o SelectPairs(Tail(items), keys)

RECURSIVE RejectPairs(_, _)
RejectPairs(items, keys) ==
    IF Len(items) = 0 THEN <<>>
    ELSE (IF items[1][1] \in keys THEN <<>> ELSE <<items[1]>>) \o RejectPairs(Tail(items), keys)

KeysOf(items) == {items[i][1] : i \in 1..Len(items)}

\* The values stored under <key>, in order.
ValuesOf(items, key) ==
    With(SelectPairs(items, {key}), LAMBDA sel : [i \in 1..Len(sel) |-> sel[i][2]])

\* params.load(items): the pairs of <items> replace every stored pair.
omd_load(items) == items

\* params.add(key, value): one more pair at the end.
omd_add(params, key, value) == Append(params, <<key, value>>)

\* params.pop(key, None): every pair stored under <key> is removed.
omd_pop(params, key) == RejectPairs(params, {key})

\* How many of the first i pairs of <items> have the key of the i-th.
Occurrence(items, i) == Cardinality({j \in 1..i : items[j][1] = items[i][1]})

\* The pairs of a mapping whose values may be lists: <<key, <<v1, .., vn>>>>
\* stands for the n pairs (key, v1), .., (key, vn).
RECURSIVE FlattenMapping(_)
FlattenMapping(mapping) ==
    IF Len(mapping) = 0 THEN <<>>
    ELSE [i \in 1..Len(mapping[1][2]) |-> <<mapping[1][1], mapping[1][2][i]>>]
         \o FlattenMapping(Tail(mapping))

\* params.updateall(mapping) on the flattened pairs <items>: the i-th pair
\* stored under a key of <items> takes the i-th value <items> supplies for
\* that key and is removed when there is no i-th value; the pairs of
\* <items> that replaced nothing follow at the end, in their order.
RECURSIVE UpdateInPlace(_, _, _)
UpdateInPlace(params, items, n) ==
    IF n = 0 THEN <<>>
    ELSE UpdateInPlace(params, items, n - 1)
         \o With(ValuesOf(items, params[n][1]), LAMBDA vals :
            With(Occurrence(params, n), LAMBDA occ :
                IF params[n][1] \notin KeysOf(items) THEN <<params[n]>>
                ELSE IF occ <= Len(vals) THEN << <<params[n][1], vals[occ]>> >>
                ELSE <<>>))

RECURSIVE UpdateLeftovers(_, _, _)
UpdateLeftovers(params, items, n) ==
    IF n = 0 THEN <<>>
    ELSE UpdateLeftovers(params, items, n - 1)
         \o (IF Occurrence(items, n) > Len(ValuesOf(params, items[n][1]))
             THEN <<items[n]>> ELSE <<>>)

omd_updateall(params, mapping) ==
    With(FlattenMapping(mapping), LAMBDA items :
        UpdateInPlace(params, items, Len(params)) \o UpdateLeftovers(params, items, Len(items)))

(***************************************************************************)
(* furl/query.py: a Query is its params, a sequence of <<key, value>>.     *)
(***************************************************************************)
SAFE_KEY_CHARS == S("/?:@-._~!$'()*,")

SAFE_VALUE_CHARS == S("/?:@-._~!$'()*,=")

\* str(x) for a key or value: a string is itself, None is 'None'.
PyStr(x) == IF x = None THEN S("None") ELSE x

\* The pair strings of urlparse.parse_qsl: split on '&', then on ';'.
RECURSIVE SplitAll(_, _)
SplitAll(parts, c) ==
    IF Len(parts) = 0 THEN <<>> ELSE Split(parts[1], c) \o SplitAll(Tail(parts), c)

\* urlparse.parse_qsl(qs, keep_blank_values=True)
RECURSIVE ParsePairs(_)
ParsePairs(pairs) ==
    IF Len(pairs) = 0 THEN <<>>
    ELSE With(Split1(pairs[1], "="), LAMBDA nv :
            IF Len(pairs[1]) = 0 THEN <<>>
            ELSE << <<unquote(Replace1(nv[1], "+", <<" ">>)),
                      IF Len(nv) = 2 THEN unquote(Replace1(nv[2], "+", <<" ">>)) ELSE <<>>>> >>)
         \o ParsePairs(Tail(pairs))

\* parse_qsl that splits the pairs on '&' only
parse_qsl_ampersand_only(qs) == ParsePairs(Split(qs, "&"))

parse_qsl(qs) == ParsePairs(SplitAll(Split(qs, "&"), ";"))

\* Query._items(items) for a query string
Query_items(items) == IF Len(items) = 0 THEN <<>> ELSE parse_qsl(items)

\* Query._items(items) for a list of (key, value) pairs
Query_items_list(items) == items

\* Query.load(query) for a query string
Query_load(query) == omd_load(Query_items(query))

\* Query.load(query) for a list of pairs
Query_load_list(query) == omd_load(Query_items_list(query))

\* Query.add(args): params.add(param, value) for each pair, in order
RECURSIVE AddEach(_, _)
AddEach(params, items) ==
    IF Len(items) = 0 THEN params
    ELSE AddEach(omd_add(params, items[1][1], items[1][2]), Tail(items))

Query_add(params, args) == AddEach(params, Query_items(args))

\* Query.add that loads: the pairs of <args> replace the stored pairs
Query_add_list_replacing(params, args) == omd_load(Query_items_list(args))

Query_add_list(params, args) == AddEach(params, Query_items_list(args))

\* Query.set that adds: the pairs of <mapping> follow the stored pairs
Query_set_adding(params, mapping) == AddEach(params, FlattenMapping(mapping))

\* Query.set(mapping)
Query_set(params, mapping) == omd_updateall(params, mapping)

\* Query.remove(query): True clears, otherwise each key is popped
RECURSIVE PopEach(_, _)
PopEach(params, keys) ==
    IF Len(keys) = 0 THEN params ELSE PopEach(omd_pop(params, keys[1]), Tail(keys))

Query_remove_all(params) == Query_load(<<>>)

\* Query.remove that takes away only the first pair stored under <key>
Query_remove_first_only(params, key) ==
    IF \E i \in 1..Len(params) : params[i][1] = key
    THEN With(CHOOSE i \in 1..Len(params) :
                  params[i][1] = key /\ \A j \in 1..(i - 1) : params[j][1] # key,
              LAMBDA i : SubSeq(params, 1, i - 1) \o SubSeq(params, i + 1, Len(params)))
    ELSE params

\* Query.remove(key) for one key
Query_remove(params, key) == PopEach(params, <<key>>)

\* Query.remove(keys) for a list of keys
Query_remove_list(params, keys) == PopEach(params, keys)

\* Query.encode(delimeter)
Query_encode(params, delimeter) ==
    StrJoin([i \in 1..Len(params) |->
                quote_plus(PyStr(params[i][1]), SAFE_KEY_CHARS) \o <<"=">>
                \o quote_plus(PyStr(params[i][2]), SAFE_VALUE_CHARS)],
            delimeter)

\* Query.__str__
Query_str(params) == Query_encode(params, <<"&">>)

\* Query.__nonzero__
Query_nonzero(params) == Len(params) > 0

(***************************************************************************)
(* furl/fragment.py: a Fragment is [path, query, separator].  Its path is  *)
(* never forced absolute (FragmentPathCompositionInterface).               *)
(***************************************************************************)
Fragment_force_absolute == FALSE

EmptyFragment == [path |-> EmptyPath, query |-> <<>>, separator |-> TRUE]

\* Fragment.load that always splits at the first '?'
Fragment_parts_always_split(fragment) ==
    With(Split1(fragment, "?"), LAMBDA toks :
        IF Len(toks) = 1
        THEN (IF Contains(fragment, "=") THEN <<<<>>, fragment>> ELSE <<fragment, <<>>>>)
        ELSE <<toks[1], toks[2]>>)

\* The <<path, query>> strings Fragment.load loads from <fragment>.
Fragment_parts(fragment) ==
    With(Split1(fragment, "?"), LAMBDA toks :
        IF Len(toks) = 1
        THEN (IF Contains(fragment, "=") THEN <<<<>>, fragment>> ELSE <<fragment, <<>>>>)
        ELSE (IF Contains(toks[2], "=") THEN <<toks[1], toks[2]>> ELSE <<fragment, <<>>>>))

\* Fragment.load(fragment)
Fragment_load(fr, fragment) ==
    With(Fragment_parts(fragment), LAMBDA parts :
        [fr EXCEPT !.path  = Path_load(parts[1], Fragment_force_absolute),
                   !.query = Query_load(parts[2])])

\* Fragment.__nonzero__
Fragment_nonzero(fr) == Path_nonzero(fr.path) \/ Query_nonzero(fr.query)

\* Fragment.__str__ that puts the '?' between path and query in any case
Fragment_str_parts_separator_ignored(fr, path, query) ==
    IF Len(query) > 0 /\ Len(path) > 0 THEN path \o <<"?">> \o query ELSE path \o query

\* Fragment.__str__ from line 116 on, given str(self._path), str(self._query)
Fragment_str_parts(fr, path, query) ==
    With(IF Len(path) > 0 /\ (Len(query) = 0 \/ ~fr.separator)
         THEN Replace(path, S("%3F"), S("?")) ELSE path, LAMBDA decoded :
        IF Len(query) > 0 /\ Len(decoded) > 0
        THEN decoded \o (IF fr.separator THEN <<"?">> ELSE <<>>) \o query
        ELSE decoded \o query)

\* Fragment.__str__
Fragment_str(fr) ==
    Fragment_str_parts(fr, Path_str(fr.path, Fragment_force_absolute), Query_str(fr.query))

(***************************************************************************)
(* furl/core.py: a Furl is [scheme, username, password, host, port, path,  *)
(* query, fragment]; host and port are the attributes _host and _port.     *)
(***************************************************************************)
DEFAULT_PORTS == [ftp |-> 21, ssh |-> 22, http |-> 80, https |-> 443]

\* self.DEFAULT_PORTS.get(scheme)
DefaultPort(scheme) ==
    IF scheme = S("ftp") THEN DEFAULT_PORTS.ftp
    ELSE IF scheme = S("ssh") THEN DEFAULT_PORTS.ssh
    ELSE IF scheme = S("http") THEN DEFAULT_PORTS.http
    ELSE IF scheme = S("https") THEN DEFAULT_PORTS.https
    ELSE NonePort

\* Python truth value of a port: None and 0 are false
PortTruthy(port) == port # NonePort /\ port # 0

\* The userpass part of Furl.netloc (lines 134-138)
Furl_userpass(f) ==
    With(IF f.password # None THEN OrEmpty(f.username) \o <<":">> \o f.password
         ELSE OrEmpty(f.username), LAMBDA userpass :
        IF Len(userpass) > 0 \/ f.username # None THEN userpass \o <<"@">> ELSE userpass)

\* Furl_hostport without the comparison with the scheme's default port
Furl_hostport_port_always_shown(f) ==
    IF PortTruthy(f.port)
    THEN OrEmpty(f.host) \o <<":">> \o IntStr(f.port)
    ELSE OrEmpty(f.host)

\* The host and port part of Furl.netloc (lines 140-142)
Furl_hostport(f) ==
    IF PortTruthy(f.port) /\ f.port # DefaultPort(f.scheme)
    THEN OrEmpty(f.host) \o <<":">> \o IntStr(f.port)
    ELSE OrEmpty(f.host)

\* Furl.netloc (getter): a string, or None
Furl_netloc(f) ==
    With(Furl_userpass(f) \o Furl_hostport(f), LAMBDA netloc :
        IF Len(netloc) > 0 \/ f.host = <<>> THEN netloc ELSE None)

\* _force_absolute that looks at the path alone
Furl_force_absolute_netloc_ignored(f) == Path_nonzero(f.path)

\* URLPathCompositionInterface._force_absolute(path)
Furl_force_absolute(f) == Path_nonzero(f.path) /\ Truthy(Furl_netloc(f))

\* Furl.port (setter); <port> is None or str(port)
Furl_set_port(f, port) ==
    IF port = None THEN Ok([f EXCEPT !.port = DefaultPort(f.scheme)])
    ELSE IF is_valid_port(port) THEN Ok([f EXCEPT !.port = ParseInt(port)])
    ELSE Raise("ValueError", f)

\* urlparse.urlsplit('http://%s/' % netloc) raises ValueError
MalformedNetloc(netloc) == urlparse_urlsplit(S("http://") \o netloc \o S("/")).err # "none"

\* Furl.host (setter)
Furl_set_host(f, host) ==
    IF MalformedNetloc(PyStr(host)) THEN Raise("ValueError", f) ELSE Ok([f EXCEPT !.host = host])

\* Lines 157-162 of the netloc setter: username, password and the rest.
SplitUserPass(netloc) ==
    IF Contains(netloc, "@")
    THEN With(Split1(netloc, "@"), LAMBDA at :
         With(Split1(at[1], ":"), LAMBDA up :
            [username |-> up[1], password |-> IF Len(up) = 2 THEN up[2] ELSE None,
             rest |-> at[2]]))
    ELSE [username |-> None, password |-> None, rest |-> netloc]

\* Lines 164-178 of the netloc setter: host and port of <netloc>; bad is
\* TRUE where line 171 raises.
SplitHostPort(netloc) ==
    With(RFind(netloc, ":"), LAMBDA colonpos :
    With(RFind(netloc, "]"), LAMBDA bracketpos :
        IF colonpos = 0 THEN [bad |-> FALSE, host |-> Lower(netloc), port |-> None]
        ELSE IF bracketpos = 0
        THEN [bad |-> FALSE, host |-> Lower(SubSeq(netloc, 1, colonpos - 1)),
              port |-> Drop(netloc, colonpos)]
        ELSE IF colonpos > bracketpos /\ colonpos # bracketpos + 1
        THEN [bad |-> TRUE, host |-> None, port |-> None]
        ELSE IF colonpos > bracketpos
        THEN [bad |-> FALSE, host |-> SubSeq(netloc, 1, colonpos - 1),
              port |-> Drop(netloc, colonpos)]
        ELSE [bad |-> FALSE, host |-> Lower(netloc), port |-> None]))

\* Lines 182-185 of the netloc setter: the four assignments, port first.
Furl_assign_netloc(f, up, hp) ==
    With(Furl_set_port(f, hp.port), LAMBDA r1 :
        IF r1.err # "none" THEN r1
        ELSE With(Furl_set_host(r1.obj, OrNone(hp.host)), LAMBDA r2 :
            IF r2.err # "none" THEN r2
            ELSE Ok([r2.obj EXCEPT !.username = OrNone(up.username),
                                   !.password = OrNone(up.password)])))

\* Furl.netloc (setter); <netloc> is a string, or None as Furl.set may pass
Furl_set_netloc(f, netloc) ==
    IF netloc = None THEN Raise("TypeError", f)
    ELSE IF MalformedNetloc(netloc) THEN Raise("ValueError", f)
    ELSE With(SplitUserPass(netloc), LAMBDA up :
         With(SplitHostPort(up.rest), LAMBDA hp :
            IF hp.bad THEN Raise("ValueError", f) ELSE Furl_assign_netloc(f, up, hp)))

\* Lines 92-97 of Furl.load, after the netloc is set.
Furl_load_tokens(f, tokens) ==
    With([f EXCEPT !.scheme = OrNone(Lower(tokens.scheme))], LAMBDA f1 :
    With(IF ~PortTruthy(f1.port) THEN [f1 EXCEPT !.port = DefaultPort(f1.scheme)] ELSE f1,
         LAMBDA f2 :
        [f2 EXCEPT !.path = Path_load(tokens.path, Furl_force_absolute(f2)),
                   !.query = Query_load(tokens.query),
                   !.fragment = Fragment_load(f2.fragment, tokens.fragment)]))

\* Furl.load(url)
Furl_load(f, url) ==
    With([f EXCEPT !.username = None, !.password = None, !.scheme = None,
                   !.host = None, !.port = NonePort], LAMBDA f0 :
    With(urlsplit(url), LAMBDA tokens :
        IF tokens.err # "none" THEN Raise(tokens.err, f0)
        ELSE With(Furl_set_netloc(f0, tokens.netloc), LAMBDA r1 :
            IF r1.err # "none" THEN r1 ELSE Ok(Furl_load_tokens(r1.obj, tokens)))))

\* Furl.__init__: the sub-objects are created empty, nothing else is set
\* before load() runs.
NewFurl == [scheme |-> None, username |-> None, password |-> None, host |-> None,
            port |-> NonePort, path |-> EmptyPath, query |-> <<>>,
            fragment |-> EmptyFragment]

\* Furl(url)
Furl(url) == Furl_load(NewFurl, url)

\* Furl.__str__ without its special cases
Furl_str_fix_none(f, path, url) == url

\* Lines 422-427 of Furl.__str__: the fix-ups of the url urlunsplit made.
Furl_str_fix(f, path, url) ==
    IF ~Truthy(f.scheme) /\ StartsWith(url, S("//")) /\ ~StartsWith(path, S("//"))
    THEN Drop(url, 2)
    ELSE IF f.scheme # None /\ Len(url) = 0 THEN url \o S("://")
    ELSE IF f.scheme # None /\ url = f.scheme \o <<":">> THEN url \o S("//")
    ELSE url

\* Furl.__str__
Furl_str(f) ==
    With(Path_str(f.path, Furl_force_absolute(f)), LAMBDA path :
        Furl_str_fix(f, path,
            urlparse_urlunsplit(f.scheme, Furl_netloc(f), path, Query_str(f.query),
                                Fragment_str(f.fragment))))

(***************************************************************************)
(* Furl.set, Furl.add and Furl.remove.  A parameter that is not given is   *)
(* Absent (AbsentList, AbsentItems for parameters that are lists);         *)
(* a parameter given as True is PyTrue.  A path parameter is given either  *)
(* as a string (path) or as a list of segments (path_list).                *)
(***************************************************************************)
AbsentList == << Absent >>

AbsentItems == << <<Absent, Absent>> >>

PyTrue == <<"True">>

\* The str(port) or None that restores a port read from the object.
PortValue(port) == IF port = NonePort THEN None ELSE IntStr(port)

\* The except clause of Furl.set (line 324): self.netloc, self.port =
\* oldnetloc, oldport, and the ValueError raised again when both succeed.
Furl_set_restore(f, oldnetloc, oldport) ==
    With(Furl_set_netloc(f, oldnetloc), LAMBDA b1 :
        IF b1.err # "none" THEN b1
        ELSE With(Furl_set_port(b1.obj, PortValue(oldport)), LAMBDA b2 :
            IF b2.err # "none" THEN b2 ELSE Raise("ValueError", b2.obj)))

\* The try block of Furl.set (lines 318-321): netloc, then port.
Furl_set_try(f, a) ==
    With(IF a.netloc # Absent THEN Furl_set_netloc(f, a.netloc) ELSE Ok(f), LAMBDA r1 :
        IF r1.err = "none" /\ a.port # Absent THEN Furl_set_port(r1.obj, a.port) ELSE r1)

\* Lines 316-325 of Furl.set: netloc and port, put back on ValueError.
Furl_set_netloc_port(f, a) ==
    With(Furl_set_try(f, a), LAMBDA r :
        IF r.err # "ValueError" THEN r ELSE Furl_set_restore(r.obj, Furl_netloc(f), f.port))

\* Lines 327-334 of Furl.set: username, password, scheme and host.
Furl_set_attrs(f, a) ==
    With([f EXCEPT !.username = IF a.username # Absent THEN a.username ELSE @,
                   !.password = IF a.password # Absent THEN a.password ELSE @,
                   !.scheme   = IF a.scheme # Absent THEN a.scheme ELSE @],
         LAMBDA f1 : IF a.host # Absent THEN Furl_set_host(f1, a.host) ELSE Ok(f1))

\* Furl.set whose query parameters are taken in the opposite order
Furl_set_path_query_first_wins(f, a) ==
    [f EXCEPT !.path  = IF a.path # Absent THEN Path_load(a.path, Furl_force_absolute(f))
                        ELSE IF a.path_list # AbsentList
                        THEN Path_load_list(a.path_list, Furl_force_absolute(f))
                        ELSE @,
              !.query = IF a.query # Absent THEN Query_load(a.query)
                        ELSE IF a.args # AbsentItems THEN Query_load_list(a.args)
                        ELSE IF a.query_params # AbsentItems
                        THEN Query_load_list(a.query_params)
                        ELSE @]

\* Lines 336-343 of Furl.set: path and query.
Furl_set_path_query(f, a) ==
    [f EXCEPT !.path  = IF a.path # Absent THEN Path_load(a.path, Furl_force_absolute(f))
                        ELSE IF a.path_list # AbsentList
                        THEN Path_load_list(a.path_list, Furl_force_absolute(f))
                        ELSE @,
              !.query = IF a.query_params # AbsentItems THEN Query_load_list(a.query_params)
                        ELSE IF a.args # AbsentItems THEN Query_load_list(a.args)
                        ELSE IF a.query # Absent THEN Query_load(a.query)
                        ELSE @]

\* Lines 344-351 of Furl.set: the fragment and its parts.
Furl_set_fragment(fr, a) ==
    With(IF a.fragment # Absent THEN Fragment_load(fr, a.fragment) ELSE fr, LAMBDA fr1 :
        [fr1 EXCEPT
            !.path = IF a.fragment_path # Absent
                     THEN Path_load(a.fragment_path, Fragment_force_absolute)
                     ELSE IF a.fragment_path_list # AbsentList
                     THEN Path_load_list(a.fragment_path_list, Fragment_force_absolute)
                     ELSE @,
            !.query = IF a.fragment_args # AbsentItems
                      THEN Query_load_list(a.fragment_args) ELSE @,
            !.separator = IF a.fragment_separator # "absent"
                          THEN a.fragment_separator = "True" ELSE @])

\* Lines 336-351 of Furl.set: path, query and fragment.
Furl_set_parts(f, a) ==
    [Furl_set_path_query(f, a) EXCEPT !.fragment = Furl_set_fragment(f.fragment, a)]

\* Furl.set(...)
Furl_set(f, a) ==
    With(Furl_set_netloc_port(f, a), LAMBDA r1 :
        IF r1.err # "none" THEN r1
        ELSE With(Furl_set_attrs(r1.obj, a), LAMBDA r2 :
            IF r2.err # "none" THEN r2 ELSE Ok(Furl_set_parts(r2.obj, a))))

NoSetArgs ==
    [args |-> AbsentItems, path |-> Absent, path_list |-> AbsentList, fragment |-> Absent,
     scheme |-> Absent, netloc |-> Absent, fragment_path |-> Absent,
     fragment_path_list |-> AbsentList, fragment_args |-> AbsentItems,
     fragment_separator |-> "absent", host |-> Absent, port |-> Absent, query |-> Absent,
     query_params |-> AbsentItems, username |-> Absent, password |-> Absent]

\* Path.add(path) for a parameter that is absent, a string or a list
Path_add_arg(p, path, path_list, forced) ==
    IF path # Absent THEN Path_add(p, path, forced)
    ELSE IF path_list # AbsentList THEN Path_add_list(p, path_list, forced)
    ELSE p

\* Query.add(args) for a parameter that is absent or a list of pairs
Query_add_arg(params, args) ==
    IF args # AbsentItems THEN Query_add_list(params, args) ELSE params

\* Fragment.add(path, args)
Fragment_add(fr, path, path_list, args) ==
    [fr EXCEPT !.path  = Path_add_arg(@, path, path_list, Fragment_force_absolute),
               !.query = Query_add_arg(@, args)]

\* Fragment.set(path, args, separator)
Fragment_set(fr, path, args, separator) ==
    [fr EXCEPT !.path  = IF path # Absent THEN Path_load(path, Fragment_force_absolute) ELSE @,
               !.query = IF args # AbsentItems THEN Query_load_list(args) ELSE @,
               !.separator = IF separator # "absent" THEN separator = "True" ELSE @]

\* Furl.add(...)
Furl_add(f, a) ==
    [f EXCEPT
        !.path  = Path_add_arg(@, a.path, a.path_list, Furl_force_absolute(f)),
        !.query = Query_add_arg(Query_add_arg(@, a.args), a.query_params),
        !.fragment = IF a.fragment_path # Absent \/ a.fragment_path_list # AbsentList
                        \/ a.fragment_args # AbsentItems
                     THEN Fragment_add(@, a.fragment_path, a.fragment_path_list,
                                       a.fragment_args)
                     ELSE @]

NoAddArgs ==
    [args |-> AbsentItems, path |-> Absent, path_list |-> AbsentList,
     fragment_path |-> Absent, fragment_path_list |-> AbsentList,
     fragment_args |-> AbsentItems, query_params |-> AbsentItems]

\* Path.remove(path) for a parameter that is absent, True, a string or a list
Path_remove_arg(p, path, path_list, forced) ==
    IF path = PyTrue THEN Path_remove_all(p, forced)
    ELSE IF path # Absent THEN Path_remove(p, path, forced)
    ELSE IF path_list # AbsentList THEN Path_remove_list(p, path_list, forced)
    ELSE p

\* Query.remove(keys) for a parameter that is absent or a list of keys
Query_remove_keys(params, keys) ==
    IF keys # AbsentList THEN Query_remove_list(params, keys) ELSE params

\* Query.remove(query) for a parameter that is absent, True or one key
Query_remove_arg(params, query) ==
    IF query = PyTrue THEN Query_remove_all(params)
    ELSE IF query # Absent THEN Query_remove(params, query)
    ELSE params

\* Lines 381-386 of Furl.remove: port, username and password.
Furl_remove_attrs(f, a) ==
    [f EXCEPT !.port     = IF a.port THEN DefaultPort(f.scheme) ELSE @,
              !.username = IF a.username THEN None ELSE @,
              !.password = IF a.password THEN None ELSE @]

\* Lines 393-399 of Furl.remove on the fragment: fragment, fragment_path
\* and fragment_args.
Furl_remove_fragment(fr, a) ==
    With(IF a.fragment THEN Fragment_load(fr, <<>>) ELSE fr, LAMBDA fr1 :
        [fr1 EXCEPT
            !.path  = Path_remove_arg(@, a.fragment_path, a.fragment_path_list,
                                      Fragment_force_absolute),
            !.query = Query_remove_keys(@, a.fragment_args)])

\* Furl.remove(...)
Furl_remove(f, a) ==
    With(Furl_remove_attrs(f, a), LAMBDA f1 :
        [f1 EXCEPT
            !.path  = Path_remove_arg(@, a.path, a.path_list, Furl_force_absolute(f1)),
            !.query = Query_remove_keys(
                          Query_remove_arg(Query_remove_keys(@, a.args), a.query),
                          a.query_params),
            !.fragment = Furl_remove_fragment(@, a)])

NoRemoveArgs ==
    [args |-> AbsentList, path |-> Absent, path_list |-> AbsentList, fragment |-> FALSE,
     query |-> Absent, query_params |-> AbsentList, port |-> FALSE,
     fragment_path |-> Absent, fragment_path_list |-> AbsentList,
     fragment_args |-> AbsentList, username |-> FALSE, password |-> FALSE]

(***************************************************************************)
(* urlparse.urljoin of the Python 2 standard library and helpers.urljoin.  *)
(***************************************************************************)
uses_relative ==
    { S("ftp"), S("http"), S("gopher"), S("nntp"), S("imap"), S("wais"), S("file"),
      S("https"), S("shttp"), S("mms"), S("prospero"), S("rtsp"), S("rtspu"), S(""),
      S("sftp"), S("svn"), S("svn+ssh") }

uses_params ==
    { S("ftp"), S("hdl"), S("prospero"), S("http"), S("imap"), S("https"), S("shttp"),
      S("rtsp"), S("rtspu"), S("sip"), S("sips"), S("mms"), S(""), S("sftp"), S("tel") }

\* Position of the first ';' of url at or after start, or 0.
FindSemi(url, start) ==
    IF \E i \in start..Len(url) : url[i] = ";"
    THEN CHOOSE i \in start..Len(url) :
            url[i] = ";" /\ \A j \in start..(i - 1) : url[j] # ";"
    ELSE 0

\* urlparse._splitparams(url)
splitparams(url) ==
    With(RFind(url, "/"), LAMBDA slash :
    With(FindSemi(url, IF slash = 0 THEN 1 ELSE slash), LAMBDA i :
        IF i = 0 THEN <<url, <<>>>> ELSE <<SubSeq(url, 1, i - 1), Drop(url, i)>>))

\* urlparse.urlparse from line 3 on: t is urlsplit(url, scheme), pp the
\* path and the params split off it.
urlparse_tuple(t, pp) ==
    [err |-> t.err, scheme |-> t.scheme, netloc |-> t.netloc, path |-> pp[1],
     params |-> pp[2], query |-> t.query, fragment |-> t.fragment]

\* urlparse.urlsplit(url, scheme): <scheme> when the url names none
urlparse_urlsplit_default(url, scheme) ==
    With(urlparse_urlsplit(url), LAMBDA t :
        [t EXCEPT !.scheme = IF Len(@) > 0 THEN @ ELSE scheme])

\* urlparse.urlparse(url, scheme): urlsplit with a default scheme, and the
\* params split off the path.
urlparse_urlparse(url, scheme) ==
    With(urlparse_urlsplit_default(url, scheme), LAMBDA t :
        urlparse_tuple(t, IF t.scheme \in uses_params /\ Contains(t.path, ";")
                          THEN splitparams(t.path) ELSE <<t.path, <<>>>>))

\* urlparse.urlunparse((scheme, netloc, url, params, query, fragment))
urlparse_urlunparse(scheme, netloc, path, params, query, fragment) ==
    urlparse_urlunsplit(scheme, netloc,
                        IF Len(params) > 0 THEN path \o <<";">> \o params ELSE path,
                        query, fragment)

\* while '.' in segments: segments.remove('.')
RECURSIVE RemoveDots(_)
RemoveDots(segments) ==
    IF Len(segments) = 0 THEN <<>>
    ELSE (IF segments[1] = S(".") THEN <<>> ELSE <<segments[1]>>) \o RemoveDots(Tail(segments))

\* The leftmost i with segments[i] = '..' after a segment that is neither
\* '' nor '..', or 0.
FindDotDot(segments) ==
    LET Hit(i) == segments[i] = S("..") /\ segments[i - 1] \notin {<<>>, S("..")}
    IN  IF \E i \in 2..(Len(segments) - 1) : Hit(i)
        THEN CHOOSE i \in 2..(Len(segments) - 1) : Hit(i) /\ \A j \in 2..(i - 1) : ~Hit(j)
        ELSE 0

\* The while loop of urljoin that deletes 'x/..' pairs, leftmost first.
RECURSIVE RemoveDotDots(_)
RemoveDotDots(segments) ==
    With(FindDotDot(segments), LAMBDA i :
        IF i = 0 THEN segments
        ELSE RemoveDotDots(SubSeq(segments, 1, i - 2) \o SubSeq(segments, i + 1, Len(segments))))

\* The last two fix-ups of urljoin's segments.
JoinedTail(s2) ==
    IF s2 = << <<>>, S("..") >> THEN << <<>>, <<>> >>
    ELSE IF Len(s2) >= 2 /\ s2[Len(s2)] = S("..")
    THEN SubSeq(s2, 1, Len(s2) - 2) \o << <<>> >>
    ELSE s2

\* segments[-1] == '.' becomes ''
JoinedHead(s0) == IF s0[Len(s0)] = S(".") THEN [s0 EXCEPT ![Len(s0)] = <<>>] ELSE s0

JoinedSegments(bpath, path) ==
    With(Split(bpath, "/"), LAMBDA bsegs :
        JoinedTail(RemoveDotDots(RemoveDots(
            JoinedHead(SubSeq(bsegs, 1, Len(bsegs) - 1) \o Split(path, "/"))))))

\* urljoin from line 9 on: b and u are the parsed base and url.
urlparse_urljoin_parsed(url, b, u) ==
    IF u.scheme # b.scheme \/ u.scheme \notin uses_relative THEN url
    ELSE IF u.scheme \in uses_netloc /\ Len(u.netloc) > 0
    THEN urlparse_urlunparse(u.scheme, u.netloc, u.path, u.params, u.query, u.fragment)
    ELSE With(IF u.scheme \in uses_netloc THEN b.netloc ELSE u.netloc, LAMBDA netloc :
        With(IF Take(u.path, 1) = S("/") THEN [u EXCEPT !.netloc = netloc]
             ELSE IF Len(u.path) = 0 /\ Len(u.params) = 0
             THEN [u EXCEPT !.netloc = netloc, !.path = b.path, !.params = b.params,
                            !.query = IF Len(u.query) = 0 THEN b.query ELSE u.query]
             ELSE [u EXCEPT !.netloc = netloc,
                            !.path = StrJoin(JoinedSegments(b.path, u.path), <<"/">>)],
             LAMBDA r :
            urlparse_urlunparse(r.scheme, r.netloc, r.path, r.params, r.query, r.fragment)))

\* urlparse.urljoin(base, url): err is "ValueError" when splitting either
\* url raises, and then url is not meaningful.
urlparse_urljoin(base, url) ==
    IF Len(base) = 0 THEN [err |-> "none", url |-> url]
    ELSE IF Len(url) = 0 THEN [err |-> "none", url |-> base]
    ELSE With(urlparse_urlparse(base, <<>>), LAMBDA b :
         With(urlparse_urlparse(url, b.scheme), LAMBDA u :
            IF b.err # "none" \/ u.err # "none" THEN [err |-> "ValueError", url |-> <<>>]
            ELSE [err |-> "none", url |-> urlparse_urljoin_parsed(url, b, u)]))

\* helpers.urljoin(base, url)
urljoin(base, url) ==
    With(urlparse_urljoin(_set_scheme(base, S("http")), url), LAMBDA joined :
        IF joined.err = "none" /\ Len(_get_scheme(url)) = 0
        THEN [joined EXCEPT !.url = _set_scheme(joined.url, _get_scheme(base))]
        ELSE joined)

\* Furl.join(url)
Furl_join(f, url) ==
    With(urljoin(Furl_str(f), url), LAMBDA joined :
        IF joined.err # "none" THEN Raise(joined.err, f) ELSE Furl_load(f, joined.url))

(***************************************************************************)
(* State.  furl, err and last are a Furl object, the exception that        *)
(* escaped the last call on it ("none" when it returned) and the name of   *)
(* that call; calls counts the calls made on it since construction.  url,  *)
(* given, rendered, again and pc follow one                                *)
(* construct-render-construct-render run over an input url.  params and    *)
(* qlast are a Query object and the name of the last call on it.           *)
(***************************************************************************)
VARIABLES furl, err, last, calls, url, given, rendered, again, pc, params, qlast,
          operands, result, hlast, fragment, fgiven, flast, pobj, powner, pgiven, plast,
          qgiven, qdelim, qencoded

vars == <<furl, err, last, calls, url, given, rendered, again, pc, params, qlast,
          operands, result, hlast, fragment, fgiven, flast, pobj, powner, pgiven, plast,
          qgiven, qdelim, qencoded>>

furlVars == <<furl, err, last, calls>>

parseVars == <<url, given, rendered, again, pc>>

\* The pairs a Query was given, the delimiter it is encoded with, and the
\* encoded string.
encVars == <<qgiven, qdelim, qencoded>>

queryVars == <<params, qlast, encVars>>

\* The operands and the result of a call of a helper of furl/helpers.py.
helperVars == <<operands, result, hlast>>

\* A Fragment object of its own and the string it was last loaded from.
fragVars == <<fragment, fgiven, flast>>

\* A Path object of its own, whether its owner has a netloc, and the last
\* argument given to it.
pathVars == <<pobj, powner, pgiven, plast>>

(***************************************************************************)
(* Inputs of the parse/render runs.                                        *)
(***************************************************************************)
MaxTokens == 3

\* Every concatenation of at most n tokens.
RECURSIVE Strs(_, _)
Strs(tokens, n) ==
    IF n = 0 THEN {<<>>}
    ELSE LET shorter == Strs(tokens, n - 1)
         IN  shorter \cup {s \o t : s \in shorter, t \in tokens}

UrlTokens == {S("/"), S("p"), S("%25"), S("%23"), S("%3F"), S("?"), S("#"), S("="), S("&")}

UrlPrefixes == {S(""), S("ssh://h"), S("http://u:p@H:23")}

FuzzUrls == {pre \o rest : pre \in UrlPrefixes, rest \in Strs(UrlTokens, MaxTokens)}

\* The components of a fully populated url and the url they spell.
NoComponents ==
    [scheme |-> Absent, username |-> Absent, password |-> Absent, host |-> Absent,
     port |-> NonePort, segments |-> AbsentList, query |-> AbsentItems,
     fsegments |-> AbsentList, fquery |-> AbsentItems]

FullComponents ==
    [scheme    : {S("ssh"), S("http"), S("Ssh")},
     username  : {S("u"), S("U~")},
     password  : {S("p"), S("1_")},
     host      : {S("h.k"), S("H")},
     port      : {22, 8080},
     segments  : {<<S("p1"), S("p2")>>, <<S("a-"), S("B.")>>},
     query     : {<<<<S("x"), S("1")>>, <<S("y"), S("2")>>>>, <<<<S("y"), S("2")>>, <<S("X"), S("~")>>>>},
     fsegments : {<<S("f1"), S("f2")>>},
     fquery    : {<<<<S("z"), S("3")>>>>, <<<<S("Z"), S("-")>>>>}]

PairStrings(items) == [i \in 1..Len(items) |-> items[i][1] \o <<"=">> \o items[i][2]]

BuildUrl(c) ==
    c.scheme \o S("://") \o c.username \o <<":">> \o c.password \o <<"@">> \o c.host
    \o <<":">> \o IntStr(c.port) \o <<"/">> \o StrJoin(c.segments, <<"/">>)
    \o <<"?">> \o StrJoin(PairStrings(c.query), <<"&">>)
    \o <<"#">> \o StrJoin(c.fsegments, <<"/">>)
    \o <<"?">> \o StrJoin(PairStrings(c.fquery), <<"&">>)

IdleFurl == furl = NewFurl /\ err = "none" /\ last = "init" /\ calls = 0

IdleParse ==
    url = <<>> /\ given = NoComponents /\ rendered = <<>> /\ again = <<>> /\ pc = "idle"

IdleEncode == qgiven = <<>> /\ qdelim = <<"&">> /\ qencoded = <<>>

IdleQuery == params = <<>> /\ qlast = "init" /\ IdleEncode

IdleHelper == operands = <<>> /\ result = <<>> /\ hlast = "init"

IdleFragment == fragment = EmptyFragment /\ fgiven = <<>> /\ flast = "init"

IdlePath == pobj = EmptyPath /\ powner = FALSE /\ pgiven = <<>> /\ plast = "init"

(***************************************************************************)
(* SpecParse: f = Furl(url); rendered = str(f); g = Furl(rendered);        *)
(* again = str(g), for each input url.                                     *)
(***************************************************************************)
InitParse ==
    /\ \/ url \in FuzzUrls /\ given = NoComponents
       \/ given \in FullComponents /\ url = BuildUrl(given)
    /\ rendered = <<>> /\ again = <<>> /\ pc = "new"
    /\ IdleFurl
    /\ IdleQuery
    /\ IdleHelper
    /\ IdleFragment
    /\ IdlePath

Construct ==
    /\ pc = "new"
    /\ \E r \in {Furl(url)} : furl' = r.obj /\ err' = r.err
    /\ last' = "init"
    /\ pc' = "loaded"
    /\ UNCHANGED <<calls, url, given, rendered, again>>
    /\ UNCHANGED queryVars
    /\ UNCHANGED helperVars
    /\ UNCHANGED fragVars
    /\ UNCHANGED pathVars

Render ==
    /\ pc = "loaded" /\ err = "none"
    /\ rendered' = Furl_str(furl)
    /\ pc' = "rendered"
    /\ UNCHANGED <<url, given, again>>
    /\ UNCHANGED furlVars
    /\ UNCHANGED queryVars
    /\ UNCHANGED helperVars
    /\ UNCHANGED fragVars
    /\ UNCHANGED pathVars

Reconstruct ==
    /\ pc = "rendered"
    /\ \E r \in {Furl(rendered)} : furl' = r.obj /\ err' = r.err
    /\ last' = "init"
    /\ pc' = "reloaded"
    /\ UNCHANGED <<calls, url, given, rendered, again>>
    /\ UNCHANGED queryVars
    /\ UNCHANGED helperVars
    /\ UNCHANGED fragVars
    /\ UNCHANGED pathVars

RenderAgain ==
    /\ pc = "reloaded" /\ err = "none"
    /\ again' = Furl_str(furl)
    /\ pc' = "done"
    /\ UNCHANGED <<url, given, rendered>>
    /\ UNCHANGED furlVars
    /\ UNCHANGED queryVars
    /\ UNCHANGED helperVars
    /\ UNCHANGED fragVars
    /\ UNCHANGED pathVars

NextParse == Construct \/ Render \/ Reconstruct \/ RenderAgain

SpecParse == InitParse /\ [][NextParse]_vars

\* C1: rendering is idempotent under re-parsing: for every url that load
\* accepts, str(Furl(str(Furl(url)))) = str(Furl(url)); in particular the
\* rendered url loads without error.
C1_RoundTrip ==
    /\ (pc = "reloaded" => err = "none")
    /\ (pc = "done" => again = rendered)

NoUpper(s) == \A i \in 1..Len(s) : s[i] \notin UpperLetters

\* The state shows the components <given> was spelled from, and once
\* rendered, the input url itself.
ParsedAsGiven ==
    /\ (pc \in {"loaded", "rendered"} =>
            /\ err = "none"
            /\ furl.scheme = given.scheme
            /\ furl.username = given.username
            /\ furl.password = given.password
            /\ furl.host = given.host
            /\ furl.port = given.port
            /\ furl.path.segments = given.segments
            /\ furl.query = given.query
            /\ furl.fragment.path.segments = given.fsegments
            /\ furl.fragment.query = given.fquery)
    /\ (pc = "rendered" => rendered = url)

FullyPopulated ==
    given # NoComponents /\ given.port # DefaultPort(Lower(given.scheme))

\* C2 as stated: a fully populated url whose components are made of
\* unreserved characters, with a port other than the scheme's default,
\* parses into exactly those components and renders as the input.
C2_AsStated == FullyPopulated => ParsedAsGiven

\* C2, amended: a fully populated url whose components are made of
\* unreserved characters, whose scheme and host have no upper-case letter
\* and whose port is not the scheme's default, parses into exactly those
\* components (scheme, username, password, host, integer port, path
\* segments, query pairs in order, fragment path segments, fragment query)
\* and renders as the input string, character for character.
C2_FullUrl ==
    (FullyPopulated /\ NoUpper(given.scheme) /\ NoUpper(given.host)) => ParsedAsGiven

C2_Witness ==
    /\ FullyPopulated /\ NoUpper(given.scheme) /\ NoUpper(given.host)
    /\ pc = "rendered" /\ rendered = url
    /\ furl.port = 8080 /\ Len(furl.query) = 2

(***************************************************************************)
(* Spec: one Furl object and the calls made on it.  A call that raises     *)
(* leaves the object as the code left it when the exception escaped; the   *)
(* caller may catch the exception and go on using the object.              *)
(***************************************************************************)
MaxCalls == 2

MaxSegments == 2

MaxParams == 2

\* The object stays within the bounds of the model.
Bounded(f) ==
    /\ Len(f.path.segments) <= MaxSegments
    /\ Len(f.fragment.path.segments) <= MaxSegments
    /\ Len(f.query) <= MaxParams
    /\ Len(f.fragment.query) <= MaxParams

InitUrls == {S("http://host.com/a"), S("https://u:p@h.k:80/a?x=1#f"), S("/p")}

\* Urls given to load: well formed, with an invalid port, and with a
\* malformed IPv6 literal.
LoadUrls ==
    {S("ssh://k/c?y=2"), S("ftp://K"), S("http://h:0/"), S("//[::1/x"), S("https://[::1]:22/")}

\* str(port) of the values given to the port setter, and None.
Ports == {None, S("22"), S("80"), S("65535"), S("0"), S("65536"), S(""), S("x")}

Netlocs == {S("yahoo.com:99"), S("u:@H:80"), S("h:0"), S("[::1]:22"), S("[::1]x:1"), S("")}

SetInputs ==
    { [NoSetArgs EXCEPT !.port = S("0")],
      [NoSetArgs EXCEPT !.port = S("8080")],
      [NoSetArgs EXCEPT !.port = None],
      [NoSetArgs EXCEPT !.netloc = S("yahoo.com:99"), !.port = S("bad")],
      [NoSetArgs EXCEPT !.netloc = S("k:65536")],
      [NoSetArgs EXCEPT !.netloc = S("w@k"), !.port = S("22")],
      [NoSetArgs EXCEPT !.username = <<>>, !.password = S("s")],
      [NoSetArgs EXCEPT !.scheme = S("https"), !.host = S("H")],
      [NoSetArgs EXCEPT !.host = S("[::1")],
      [NoSetArgs EXCEPT !.path = S("a b/c"), !.fragment = S("g?z=3")],
      [NoSetArgs EXCEPT !.path_list = <<S("d")>>, !.query = S("q=1&q=2")],
      [NoSetArgs EXCEPT !.args = << <<S("k"), S("v")>> >>,
                        !.fragment_path = S("e"), !.fragment_separator = "False"],
      [NoSetArgs EXCEPT !.query_params = <<>>, !.fragment_path_list = <<>>,
                        !.fragment_args = << <<S("z"), S("4")>> >>,
                        !.fragment_separator = "True"],
      [NoSetArgs EXCEPT !.netloc = S("yahoo.com:99"), !.host = S("bing.com"),
                        !.port = S("40"), !.query = S("q=1"),
                        !.args = << <<S("k"), S("v")>> >>,
                        !.query_params = << <<S("z"), S("4")>> >>,
                        !.fragment = S("g?z=3"), !.fragment_path = S("e"),
                        !.fragment_args = << <<S("w"), S("5")>> >>],
      [NoSetArgs EXCEPT !.netloc = S("u@yahoo.com:99"), !.host = S("bing.com"),
                        !.query = S("q=1"), !.args = << <<S("k"), S("v")>> >>,
                        !.fragment = S("g?z=3"), !.fragment_args = <<>>] }

AddInputs ==
    { [NoAddArgs EXCEPT !.path = S("n")],
      [NoAddArgs EXCEPT !.path_list = <<<<>>, S("m")>>, !.args = << <<S("x"), S("9")>> >>],
      [NoAddArgs EXCEPT !.query_params = << <<S("k"), S("v")>> >>,
                        !.fragment_path = S("e")],
      [NoAddArgs EXCEPT !.fragment_path_list = <<S("g")>>,
                        !.fragment_args = << <<S("z"), S("4")>> >>] }

RemoveInputs ==
    { [NoRemoveArgs EXCEPT !.port = TRUE],
      [NoRemoveArgs EXCEPT !.username = TRUE, !.password = TRUE],
      [NoRemoveArgs EXCEPT !.path = PyTrue, !.query = PyTrue, !.fragment = TRUE],
      [NoRemoveArgs EXCEPT !.path = S("a"), !.args = <<S("x")>>],
      [NoRemoveArgs EXCEPT !.path_list = <<S("c")>>, !.query = S("k"),
                           !.fragment_args = <<S("z")>>],
      [NoRemoveArgs EXCEPT !.query_params = <<S("q"), S("y")>>, !.fragment_path = S("f")],
      [NoRemoveArgs EXCEPT !.fragment_path_list = <<S("e")>>] }

JoinUrls == {S("../b"), S("//k:0/"), S("?j=1"), S("ftp://[x/")}

Init ==
    /\ \E u \in InitUrls : \E r \in {Furl(u)} : r.err = "none" /\ furl = r.obj
    /\ err = "none"
    /\ last = "init"
    /\ calls = 0
    /\ IdleParse
    /\ IdleQuery
    /\ IdleHelper
    /\ IdleFragment
    /\ IdlePath

\* f.load(u), f.url = u: furl and err are the object and the exception as the
\* call left them.
Load(u) ==
    /\ calls < MaxCalls
    /\ \E r \in {Furl_load(furl, u)} :
            Bounded(r.obj) /\ furl' = r.obj /\ err' = r.err
    /\ last' = "load"
    /\ calls' = calls + 1
    /\ UNCHANGED parseVars
    /\ UNCHANGED queryVars
    /\ UNCHANGED helperVars
    /\ UNCHANGED fragVars
    /\ UNCHANGED pathVars

\* f.port = p
SetPort(p) ==
    /\ calls < MaxCalls
    /\ \E r \in {Furl_set_port(furl, p)} :
            Bounded(r.obj) /\ furl' = r.obj /\ err' = r.err
    /\ last' = "port"
    /\ calls' = calls + 1
    /\ UNCHANGED parseVars
    /\ UNCHANGED queryVars
    /\ UNCHANGED helperVars
    /\ UNCHANGED fragVars
    /\ UNCHANGED pathVars

\* f.netloc = n
SetNetloc(n) ==
    /\ calls < MaxCalls
    /\ \E r \in {Furl_set_netloc(furl, n)} :
            Bounded(r.obj) /\ furl' = r.obj /\ err' = r.err
    /\ last' = "netloc"
    /\ calls' = calls + 1
    /\ UNCHANGED parseVars
    /\ UNCHANGED queryVars
    /\ UNCHANGED helperVars
    /\ UNCHANGED fragVars
    /\ UNCHANGED pathVars

\* f.set(**a)
Set(a) ==
    /\ calls < MaxCalls
    /\ \E r \in {Furl_set(furl, a)} :
            Bounded(r.obj) /\ furl' = r.obj /\ err' = r.err
    /\ last' = "set"
    /\ calls' = calls + 1
    /\ UNCHANGED parseVars
    /\ UNCHANGED queryVars
    /\ UNCHANGED helperVars
    /\ UNCHANGED fragVars
    /\ UNCHANGED pathVars

\* f.add(**a)
Add(a) ==
    /\ calls < MaxCalls
    /\ \E r \in {Ok(Furl_add(furl, a))} :
            Bounded(r.obj) /\ furl' = r.obj /\ err' = r.err
    /\ last' = "add"
    /\ calls' = calls + 1
    /\ UNCHANGED parseVars
    /\ UNCHANGED queryVars
    /\ UNCHANGED helperVars
    /\ UNCHANGED fragVars
    /\ UNCHANGED pathVars

\* f.remove(**a)
Remove(a) ==
    /\ calls < MaxCalls
    /\ \E r \in {Ok(Furl_remove(furl, a))} :
            Bounded(r.obj) /\ furl' = r.obj /\ err' = r.err
    /\ last' = "remove"
    /\ calls' = calls + 1
    /\ UNCHANGED parseVars
    /\ UNCHANGED queryVars
    /\ UNCHANGED helperVars
    /\ UNCHANGED fragVars
    /\ UNCHANGED pathVars

\* f.path.isabsolute = isabsolute
SetIsAbsolute(isabsolute) ==
    /\ calls < MaxCalls
    /\ \E r \in {Path_set_isabsolute(furl.path, isabsolute, Furl_force_absolute(furl))} :
            furl' = [furl EXCEPT !.path = r.obj] /\ err' = r.err
    /\ last' = "isabsolute"
    /\ calls' = calls + 1
    /\ UNCHANGED parseVars
    /\ UNCHANGED queryVars
    /\ UNCHANGED helperVars
    /\ UNCHANGED fragVars
    /\ UNCHANGED pathVars

\* f.join(u)
Join(u) ==
    /\ calls < MaxCalls
    /\ \E r \in {Furl_join(furl, u)} :
            Bounded(r.obj) /\ furl' = r.obj /\ err' = r.err
    /\ last' = "join"
    /\ calls' = calls + 1
    /\ UNCHANGED parseVars
    /\ UNCHANGED queryVars
    /\ UNCHANGED helperVars
    /\ UNCHANGED fragVars
    /\ UNCHANGED pathVars

Next ==
    \/ \E u \in LoadUrls : Load(u)
    \/ \E p \in Ports : SetPort(p)
    \/ \E n \in Netlocs : SetNetloc(n)
    \/ \E a \in SetInputs : Set(a)
    \/ \E a \in AddInputs : Add(a)
    \/ \E a \in RemoveInputs : Remove(a)
    \/ \E b \in BOOLEAN : SetIsAbsolute(b)
    \/ \E u \in JoinUrls : Join(u)

Spec == Init /\ [][Next]_vars

\* The port strings among the inputs that are no all-digit integer in
\* 1..65535.
InvalidPorts == {S("0"), S("65536"), S(""), S("x"), S("bad")}

\* Furl.set is called with an invalid port: as port, or carried by netloc.
InvalidPortCall(a) ==
    \/ a.port \in InvalidPorts
    \/ a.netloc # Absent /\ \E p \in InvalidPorts : EndsWith(a.netloc, <<":">> \o p)

\* host, port, username and password are as they were before the call.
NetlocPartsKept ==
    /\ furl'.host = furl.host
    /\ furl'.port = furl.port
    /\ furl'.username = furl.username
    /\ furl'.password = furl.password

\* C3: netloc atomicity: when Furl.set is called with an invalid port (port
\* alone, netloc together with port, or a netloc carrying an invalid port)
\* and the call fails, host, port, username and password are each as they
\* were immediately before the call, from every reachable prior state.
C3_NetlocAtomicity ==
    [][\A a \in SetInputs :
          (InvalidPortCall(a) /\ Set(a) /\ err' # "none") => NetlocPartsKept]_vars

\* C4: a failed load leaves the object untouched: when load(url), called
\* directly or through join, raises ValueError (malformed IPv6 literal,
\* invalid port), scheme, username, password, host, port, path, query and
\* fragment all equal their values before the call.
C4_FailedLoadUntouched ==
    [][(/\ \/ \E u \in LoadUrls : Load(u)
           \/ \E u \in JoinUrls : Join(u)
        /\ err' = "ValueError") => furl' = furl]_vars

\* The port is absent, or an integer in 1..65535.
PortValid(f) == f.port = NonePort \/ (f.port >= 1 /\ f.port <= 65535)

\* C5: port validity: after any sequence of calls (construction, load, port
\* setter, netloc setter, set, add, remove, join) the port is absent or an
\* integer in 1..65535; and the port setter, given a value that is no
\* all-digit integer in that range ('0', '65536', '', 'x'), raises
\* ValueError and leaves the port as it was.
C5_PortValid ==
    [][/\ PortValid(furl) /\ PortValid(furl')
       /\ \A p \in Ports \cap InvalidPorts :
             SetPort(p) => (err' = "ValueError" /\ furl'.port = furl.port)]_vars

C5_Witness == last = "port" /\ err = "ValueError" /\ furl.port = 65535 /\ calls = 2

\* The default port of a scheme (ftp 21, ssh 22, http 80, https 443), or
\* NonePort.
TableDefault(scheme) ==
    IF scheme = S("ftp") THEN 21
    ELSE IF scheme = S("ssh") THEN 22
    ELSE IF scheme = S("http") THEN 80
    ELSE IF scheme = S("https") THEN 443
    ELSE NonePort

\* The digits after the last ':' of a netloc that ends with ':<digits>',
\* or '' when it does not end so.
PortSuffix(netloc) ==
    With(RSplit1(netloc, ":"), LAMBDA hp :
        IF Len(hp) = 2 /\ IsDigit(hp[2]) THEN hp[2] ELSE <<>>)

\* The netloc ends with ':<port>' exactly when the port is present and is
\* not the default port of the scheme.
NetlocShowsPort(f) ==
    PortSuffix(OrEmpty(Furl_netloc(f))) =
        IF f.port # NonePort /\ f.port # TableDefault(f.scheme)
        THEN IntStr(f.port) ELSE <<>>

\* The urls given to load that name no port.
NoPortUrls == {S("ssh://k/c?y=2"), S("ftp://K")}

\* C6: default port and netloc rendering: a Furl loaded from a url with a
\* scheme of the default-port table and no explicit port has that scheme's
\* default port; and in every state the netloc ends with ':<port>' exactly
\* when the port is present and differs from the default port of the
\* current scheme.  Hosts are host names or bracketed IPv6 literals.
C6_DefaultPortNetloc ==
    [][/\ NetlocShowsPort(furl) /\ NetlocShowsPort(furl')
       /\ \A u \in LoadUrls \cap NoPortUrls :
             Load(u) => (err' = "none" /\ furl'.port = TableDefault(furl'.scheme)
                         /\ furl'.port # NonePort)]_vars

C6_Witness ==
    /\ furl.scheme = S("https") /\ furl.port = 80 /\ last = "set"
    /\ EndsWith(Furl_netloc(furl), S(":80"))

(***************************************************************************)
(* SpecQuery: one Query object, created empty, and the calls made on it.   *)
(* A value is a string or None.                                            *)
(***************************************************************************)
MaxPairs == 4

QueryKeys == {S("a"), S("b")}

QueryValues == {S("1"), <<>>, None}

QueryPairs == {<<k, v>> : k \in QueryKeys, v \in QueryValues}

QueryStrings == {S(""), S("a=1&b="), S("b;a=1")}

\* Lists of (key, value) pairs given to load and add.
QueryLists ==
    {<<p>> : p \in QueryPairs}
    \cup { <<>>, << <<S("a"), None>>, <<S("b"), None>> >>,
           << <<S("a"), S("1")>>, <<S("a"), <<>>>>, <<S("b"), S("1")>> >> }

\* Mappings given to set: each key with the list of its values.
QueryMappings ==
    { << <<S("a"), <<S("1")>>>> >>,
      << <<S("b"), <<None>>>> >>,
      << <<S("a"), <<S("1")>>>>, <<S("b"), <<S("1")>>>>, <<S("a"), <<<<>>>>>> >>,
      << <<S("a"), <<S("1"), <<>>, None>>>> >>,
      << <<S("b"), <<<<>>>>>>, <<S("a"), <<None>>>> >> }

\* Keys given to remove: stored keys, and one that is never stored.
RemoveKeys == QueryKeys \cup {S("c")}

RemoveKeyLists == {<<>>, <<S("a"), S("b")>>, <<S("c"), S("b")>>}

InitQuery ==
    /\ params = <<>>
    /\ qlast = "init"
    /\ IdleEncode
    /\ IdleFurl
    /\ IdleParse
    /\ IdleHelper
    /\ IdleFragment
    /\ IdlePath

\* q.load(query) for a query string
QLoad(query) ==
    /\ params' = Query_load(query)
    /\ Len(params') <= MaxPairs
    /\ qlast' = "load"
    /\ UNCHANGED furlVars
    /\ UNCHANGED parseVars
    /\ UNCHANGED helperVars
    /\ UNCHANGED fragVars
    /\ UNCHANGED pathVars
    /\ UNCHANGED encVars

\* q.load(items) for a list of pairs
QLoadList(items) ==
    /\ params' = Query_load_list(items)
    /\ Len(params') <= MaxPairs
    /\ qlast' = "load"
    /\ UNCHANGED furlVars
    /\ UNCHANGED parseVars
    /\ UNCHANGED helperVars
    /\ UNCHANGED fragVars
    /\ UNCHANGED pathVars
    /\ UNCHANGED encVars

\* q.add(args) for a query string
QAdd(args) ==
    /\ params' = Query_add(params, args)
    /\ Len(params') <= MaxPairs
    /\ qlast' = "add"
    /\ UNCHANGED furlVars
    /\ UNCHANGED parseVars
    /\ UNCHANGED helperVars
    /\ UNCHANGED fragVars
    /\ UNCHANGED pathVars
    /\ UNCHANGED encVars

\* q.add(args) for a list of pairs
QAddList(args) ==
    /\ params' = Query_add_list(params, args)
    /\ Len(params') <= MaxPairs
    /\ qlast' = "add"
    /\ UNCHANGED furlVars
    /\ UNCHANGED parseVars
    /\ UNCHANGED helperVars
    /\ UNCHANGED fragVars
    /\ UNCHANGED pathVars
    /\ UNCHANGED encVars

\* q.set(mapping)
QSet(mapping) ==
    /\ params' = Query_set(params, mapping)
    /\ Len(params') <= MaxPairs
    /\ qlast' = "set"
    /\ UNCHANGED furlVars
    /\ UNCHANGED parseVars
    /\ UNCHANGED helperVars
    /\ UNCHANGED fragVars
    /\ UNCHANGED pathVars
    /\ UNCHANGED encVars

\* q.remove(key)
QRemove(key) ==
    /\ params' = Query_remove(params, key)
    /\ qlast' = "remove"
    /\ UNCHANGED furlVars
    /\ UNCHANGED parseVars
    /\ UNCHANGED helperVars
    /\ UNCHANGED fragVars
    /\ UNCHANGED pathVars
    /\ UNCHANGED encVars

\* q.remove(keys)
QRemoveList(keys) ==
    /\ params' = Query_remove_list(params, keys)
    /\ qlast' = "remove"
    /\ UNCHANGED furlVars
    /\ UNCHANGED parseVars
    /\ UNCHANGED helperVars
    /\ UNCHANGED fragVars
    /\ UNCHANGED pathVars
    /\ UNCHANGED encVars

\* q.remove(True)
QRemoveAll ==
    /\ params' = Query_remove_all(params)
    /\ qlast' = "remove"
    /\ UNCHANGED furlVars
    /\ UNCHANGED parseVars
    /\ UNCHANGED helperVars
    /\ UNCHANGED fragVars
    /\ UNCHANGED pathVars
    /\ UNCHANGED encVars

NextQuery ==
    \/ \E query \in QueryStrings : QLoad(query)
    \/ \E items \in QueryLists : QLoadList(items)
    \/ \E args \in QueryStrings : QAdd(args)
    \/ \E args \in QueryLists : QAddList(args)
    \/ \E mapping \in QueryMappings : QSet(mapping)
    \/ \E key \in RemoveKeys : QRemove(key)
    \/ \E keys \in RemoveKeyLists : QRemoveList(keys)
    \/ QRemoveAll

SpecQuery == InitQuery /\ [][NextQuery]_vars

\* The values stored under key k, in order.
StoredUnder(ps, k) ==
    With(SelectSeq(ps, LAMBDA pr : pr[1] = k), LAMBDA sel :
        [i \in 1..Len(sel) |-> sel[i][2]])

\* The pairs whose key is none of ks, in order.
Without(ps, ks) == SelectSeq(ps, LAMBDA pr : pr[1] \notin ks)

\* The distinct keys, in the order of their first appearance.
RECURSIVE FirstKeys(_)
FirstKeys(ps) ==
    IF Len(ps) = 0 THEN <<>>
    ELSE <<ps[1][1]>> \o FirstKeys(SelectSeq(Tail(ps), LAMBDA pr : pr[1] # ps[1][1]))

\* The values a mapping supplies for key k, in mapping order.
RECURSIVE Supplied(_, _)
Supplied(mapping, k) ==
    IF Len(mapping) = 0 THEN <<>>
    ELSE (IF mapping[1][1] = k THEN mapping[1][2] ELSE <<>>) \o Supplied(Tail(mapping), k)

MappingKeys(mapping) == {mapping[i][1] : i \in 1..Len(mapping)}

StoredKeys(ps) == {ps[i][1] : i \in 1..Len(ps)}

\* C7: Query.set(mapping): for every key of the mapping, the entries stored
\* under it after the call are exactly the values the mapping supplies for
\* it, in mapping order; the keys that were stored before and still are
\* keep the order of their first appearances; the entries of keys that are
\* not in the mapping are unchanged and keep their order.
C7_SetReplacesAll ==
    [][\A mapping \in QueryMappings :
          QSet(mapping) =>
            /\ \A k \in MappingKeys(mapping) :
                  StoredUnder(params', k) = Supplied(mapping, k)
            /\ SelectSeq(FirstKeys(params'), LAMBDA k : k \in StoredKeys(params))
               = SelectSeq(FirstKeys(params), LAMBDA k : k \in StoredKeys(params'))
            /\ Without(params', MappingKeys(mapping))
               = Without(params, MappingKeys(mapping))]_vars

\* Query({a: None, b: None}).set([(a, 1), (b, 1), (a, '')]) was called.
C7_Witness ==
    /\ qlast = "set"
    /\ params = << <<S("a"), S("1")>>, <<S("b"), S("1")>>, <<S("a"), <<>>>> >>

\* The pairs a query string of the inputs spells.
SpelledPairs(query) ==
    IF query = S("a=1&b=") THEN << <<S("a"), S("1")>>, <<S("b"), <<>>>> >>
    ELSE IF query = S("b;a=1") THEN << <<S("b"), <<>>>>, <<S("a"), S("1")>> >>
    ELSE <<>>

\* The rendered query lists the stored pairs one by one, in their order.
RenderedInOrder(ps) ==
    IF Len(ps) = 0 THEN Query_str(ps) = <<>>
    ELSE Split(Query_str(ps), "&") = [i \in 1..Len(ps) |-> Query_str(<<ps[i]>>)]

\* C8: query insertion order: Query.add(input) appends every pair of the
\* input, in input order, after all stored pairs and leaves those as they
\* were; and after any sequence of load, add, set and remove the rendered
\* query lists the stored pairs in exactly their stored order.
C8_InsertionOrder ==
    [][/\ \A args \in QueryLists : QAddList(args) => params' = params \o args
       /\ \A args \in QueryStrings : QAdd(args) => params' = params \o SpelledPairs(args)
       /\ RenderedInOrder(params) /\ RenderedInOrder(params')]_vars

\* A pair was added after a stored pair of the same key.
C8_Witness ==
    /\ qlast = "add" /\ Len(params) = 3
    /\ params[1][1] = S("a") /\ params[3] = <<S("a"), S("1")>>
    /\ Query_str(params) = S("a=&b=1&a=1")

\* C9: Query.remove(k) and Query.remove([k1, ...]) delete every entry whose
\* key is one of the given keys and leave the other entries and their order
\* as they were (so removing a key that is not stored changes nothing);
\* Query.remove(True) leaves no entry.
C9_RemoveKeys ==
    [][/\ \A key \in RemoveKeys : QRemove(key) => params' = Without(params, {key})
       /\ \A keys \in RemoveKeyLists :
             QRemoveList(keys) =>
                params' = Without(params, {keys[i] : i \in 1..Len(keys)})
       /\ QRemoveAll => params' = <<>>]_vars

\* Entries are left after a remove.
C9_Witness ==
    /\ qlast = "remove" /\ Len(params) = 2
    /\ params[1][1] = S("a") /\ params[2][1] = S("a")

\* C10: query rendering distinguishes an absent value from an empty one: a
\* pair whose value is None renders as the bare key with no '=', a pair
\* whose value is '' renders as 'key=', and every other pair as
\* encode(key) + '=' + encode(value).
C10_AbsentValueBare ==
    \A i \in 1..Len(params) :
        Split(Query_str(params), "&")[i] =
            IF params[i][2] = None THEN quote_plus(params[i][1], SAFE_KEY_CHARS)
            ELSE quote_plus(params[i][1], SAFE_KEY_CHARS) \o <<"=">>
                 \o quote_plus(params[i][2], SAFE_VALUE_CHARS)

(***************************************************************************)
(* The segment helpers of furl/helpers.py, called on lists of segments.    *)
(***************************************************************************)
MaxList == 3

SegmentNames == {<<>>, S("a"), S("b")}

\* The lists of at most MaxList segments.
SegmentLists == Strs({<<x>> : x \in SegmentNames}, MaxList)

IdleSpecs == IdleFurl /\ IdleParse /\ IdleQuery /\ IdleFragment /\ IdlePath

InitSegments ==
    /\ operands \in SegmentLists \X SegmentLists
    /\ result = <<>>
    /\ hlast = "init"
    /\ IdleSpecs

\* join_path_segments(operands[1], operands[2])
JoinSegments ==
    /\ result' = join_path_segments(operands[1], operands[2])
    /\ hlast' = "join"
    /\ UNCHANGED operands
    /\ UNCHANGED furlVars
    /\ UNCHANGED parseVars
    /\ UNCHANGED queryVars
    /\ UNCHANGED fragVars
    /\ UNCHANGED pathVars

\* remove_path_segments(operands[1], operands[2])
RemoveSegments ==
    /\ result' = remove_path_segments(operands[1], operands[2])
    /\ hlast' = "remove"
    /\ UNCHANGED operands
    /\ UNCHANGED furlVars
    /\ UNCHANGED parseVars
    /\ UNCHANGED queryVars
    /\ UNCHANGED fragVars
    /\ UNCHANGED pathVars

NextSegments == JoinSegments \/ RemoveSegments

SpecSegments == InitSegments /\ [][NextSegments]_vars

\* The last element of a non-empty list.
LastOf(a) == a[Len(a)]

\* The join of a and b as the documentation describes it.
DocumentedJoin(a, b) ==
    IF Len(a) = 0 THEN b
    ELSE IF Len(b) = 0 THEN a
    ELSE IF LastOf(a) = <<>> /\ (b[1] # <<>> \/ Len(b) > 1)
         THEN SubSeq(a, 1, Len(a) - 1) \o b
    ELSE IF LastOf(a) # <<>> /\ b[1] = <<>> /\ Len(b) > 1
         THEN a \o SubSeq(b, 2, Len(b))
    ELSE a \o b

\* C11: join_path_segments(a, b) is the documented join for all segment
\* lists a and b: b when a is empty (also for b = ['']), a when b is empty;
\* a's trailing '' is dropped when a ends with '' and (b[0] # '' or b has
\* more than one element); b's leading '' is dropped when a ends with a
\* non-empty segment and b starts with '' and has more than one element;
\* plain concatenation otherwise.
C11_DocumentedJoin ==
    hlast = "join" => result = DocumentedJoin(operands[1], operands[2])

\* b is a suffix of a.
IsSuffix(b, a) == \E k \in 0..Len(a) : a = SubSeq(a, 1, k) \o b

\* A lone [''] is read as ['', ''].
Slash(a) == IF a = << <<>> >> THEN << <<>>, <<>> >> ELSE a

\* The removal of rem from segs as the documentation describes it, both
\* read through Slash; sfx is rem without one leading '' when rem has more
\* than one element.
DocumentedRemoveOf(segs, rem, sfx) ==
    IF rem = segs THEN <<>>
    ELSE IF Len(rem) > Len(segs) \/ ~IsSuffix(sfx, segs) \/ Len(sfx) = 0 THEN segs
    ELSE IF rem[1] # <<>> /\ Len(segs) > Len(sfx)
         THEN SubSeq(segs, 1, Len(segs) - Len(sfx)) \o << <<>> >>
    ELSE SubSeq(segs, 1, Len(segs) - Len(sfx))

DocumentedRemove(segs, rem) ==
    DocumentedRemoveOf(Slash(segs), Slash(rem),
                       IF Len(Slash(rem)) > 1 /\ Slash(rem)[1] = <<>>
                       THEN Tail(Slash(rem)) ELSE Slash(rem))

\* C12: remove_path_segments(segments, remove) is the documented removal for
\* all segment lists: a lone [''] operand is read as ['', '']; [] when remove
\* equals segments; segments when remove is longer than segments or (without
\* one leading '' when it has more than one element) is no suffix of
\* segments; otherwise segments without that suffix, with a trailing '' when
\* remove's first element is non-empty and segments remain.
C12_DocumentedRemove ==
    /\ hlast = "remove" => result = DocumentedRemove(operands[1], operands[2])
    /\ remove_path_segments(<<<<>>, S("a"), S("b"), S("c")>>, <<S("b"), S("c")>>)
       = <<<<>>, S("a"), <<>>>>
    /\ remove_path_segments(<<<<>>, S("a"), S("b"), S("c")>>, <<<<>>, S("b"), S("c")>>)
       = <<<<>>, S("a")>>

\* (['', 'a', 'b'], ['', 'b']) was reduced to ['', 'a'].
C12_Witness ==
    /\ hlast = "remove"
    /\ operands = << <<<<>>, S("a"), S("b")>>, <<<<>>, S("b")>> >>
    /\ result = <<<<>>, S("a")>>

\* f.path.isabsolute as the getter reads it
IsAbsolute(f) == Path_isabsolute(f.path, Furl_force_absolute(f))

HostPresent(f) == f.host # None /\ f.host # <<>>

NoAuthority(f) == Furl_netloc(f) \in {None, <<>>}

\* The force-absolute rule for the Furls that satisfy Forced.
ForceAbsoluteRule(Forced(_)) ==
    /\ Forced(furl) => IsAbsolute(furl)
    /\ Forced(furl') => IsAbsolute(furl')
    /\ \A b \in BOOLEAN :
          /\ (SetIsAbsolute(b) /\ Forced(furl)) => (err' = "AttributeError" /\ furl' = furl)
          /\ (SetIsAbsolute(b) /\ NoAuthority(furl)) => (err' = "none" /\ IsAbsolute(furl') = b)

HostAndPathPresent(f) == HostPresent(f) /\ Path_nonzero(f.path)

BoundaryShapes(p, forced) ==
    /\ p.segments = <<>> => Path_str(p, forced) = <<>>
    /\ p.segments = << <<>> >> => Path_str(p, forced) = S("/")

\* C14: path rendering of the two boundary shapes: in every reachable state
\* a path with no segments renders as the empty string, never as '/', and a
\* path whose segments are exactly [''] renders as '/'.  Stated of the path
\* of the URL and of the path of its fragment.
C14_BoundaryShapes ==
    /\ BoundaryShapes(furl.path, Furl_force_absolute(furl))
    /\ BoundaryShapes(furl.fragment.path, Fragment_force_absolute)

(***************************************************************************)
(* A Fragment object of its own: load, set, add and rendering.             *)
(***************************************************************************)
MaxFragmentTokens == 3

FragmentTokens == {S("a"), S("?"), S("="), S("/"), S("%3F")}

\* Fragment strings given to load.
FragmentExamples == {S("woofs=dogs"), S("supinthisthread"), S("a?b?"), S("a?b?c=1")}

\* Fragment strings given to the constructor.
FragmentStrings == Strs(FragmentTokens, MaxFragmentTokens) \cup FragmentExamples

\* Arguments given to Fragment.set: <<path, args, separator>>.
FragmentSets ==
    { <<Absent, AbsentItems, "False">>, <<Absent, AbsentItems, "True">>,
      <<S("a?b"), AbsentItems, "absent">>, <<S(""), AbsentItems, "absent">>,
      <<Absent, << <<S("k"), S("v")>> >>, "absent">>, <<Absent, <<>>, "absent">> }

\* Arguments given to Fragment.add: <<path, args>>.
FragmentAdds ==
    { <<S("c?"), AbsentItems>>, <<Absent, << <<S("k"), S("?")>> >> >> }

BoundedFragment(fr) ==
    Len(fr.path.segments) <= MaxSegments /\ Len(fr.query) <= MaxParams

InitFragment ==
    /\ fragment = EmptyFragment
    /\ fgiven = <<>>
    /\ flast = "init"
    /\ IdleFurl /\ IdleParse /\ IdleQuery /\ IdleHelper /\ IdlePath

\* Fragment(s): the new object loads s
FConstruct(s) ==
    /\ flast = "init"
    /\ \E fr \in {Fragment_load(EmptyFragment, s)} : BoundedFragment(fr) /\ fragment' = fr
    /\ fgiven' = s
    /\ flast' = "new"
    /\ UNCHANGED furlVars
    /\ UNCHANGED parseVars
    /\ UNCHANGED queryVars
    /\ UNCHANGED helperVars
    /\ UNCHANGED pathVars

\* fragment.load(s)
FLoad(s) ==
    /\ flast # "init"
    /\ \E fr \in {Fragment_load(fragment, s)} : BoundedFragment(fr) /\ fragment' = fr
    /\ fgiven' = s
    /\ flast' = "load"
    /\ UNCHANGED furlVars
    /\ UNCHANGED parseVars
    /\ UNCHANGED queryVars
    /\ UNCHANGED helperVars
    /\ UNCHANGED pathVars

\* fragment.set(path, args, separator)
FSet(a) ==
    /\ fragment' = Fragment_set(fragment, a[1], a[2], a[3])
    /\ flast' = "set"
    /\ UNCHANGED fgiven
    /\ UNCHANGED furlVars
    /\ UNCHANGED parseVars
    /\ UNCHANGED queryVars
    /\ UNCHANGED helperVars
    /\ UNCHANGED pathVars

\* fragment.add(path, args)
FAdd(a) ==
    /\ \E fr \in {Fragment_add(fragment, a[1], AbsentList, a[2])} :
            BoundedFragment(fr) /\ fragment' = fr
    /\ flast' = "add"
    /\ UNCHANGED fgiven
    /\ UNCHANGED furlVars
    /\ UNCHANGED parseVars
    /\ UNCHANGED queryVars
    /\ UNCHANGED helperVars
    /\ UNCHANGED pathVars

NextFragment ==
    \/ \E s \in FragmentStrings : FConstruct(s)
    \/ \E s \in FragmentExamples : FLoad(s)
    \/ \E a \in FragmentSets : FSet(a)
    \/ \E a \in FragmentAdds : FAdd(a)

SpecFragment == InitFragment /\ [][NextFragment]_vars

\* The fragment fr holds <path> loaded as its path and <query> as its query.
LoadedAs(fr, path, query) ==
    /\ fr.path = Path_load(path, FALSE)
    /\ fr.query = Query_load(query)

\* fr is what the heuristic makes of the fragment string s.
Heuristic(fr, s) ==
    /\ (~Contains(s, "?") /\ Contains(s, "=")) => LoadedAs(fr, <<>>, s)
    /\ (~Contains(s, "?") /\ ~Contains(s, "=")) => LoadedAs(fr, s, <<>>)
    /\ \A i \in 1..Len(s) :
          (s[i] = "?" /\ \A j \in 1..(i - 1) : s[j] # "?") =>
             IF Contains(SubSeq(s, i + 1, Len(s)), "=")
             THEN LoadedAs(fr, SubSeq(s, 1, i - 1), SubSeq(s, i + 1, Len(s)))
             ELSE LoadedAs(fr, s, <<>>) /\ fr.query = <<>>
    /\ s = S("woofs=dogs") =>
          fr.path.segments = <<>> /\ fr.query = << <<S("woofs"), S("dogs")>> >>
    /\ s = S("supinthisthread") =>
          fr.path.segments = <<S("supinthisthread")>> /\ fr.query = <<>>
    /\ s = S("a?b?") => fr.path.segments = <<S("a?b?")>> /\ fr.query = <<>>

\* C15: the Fragment.load heuristic, for every fragment string s: without a
\* '?', s is loaded entirely as the query when it contains '=' and entirely
\* as the path otherwise; with a '?', s is split at the first '?' and, when
\* the part after it contains '=', the part before is the path and the part
\* after the query; otherwise the whole of s, '?' included, is the path and
\* the query is empty.  Stated of the fragment right after Fragment(s) and
\* after fragment.load(s), s being fgiven.
C15_LoadHeuristic == flast \in {"new", "load"} => Heuristic(fragment, fgiven)

\* 'a?b?' was loaded whole as the path although it holds a '?'.
C15_Witness ==
    /\ flast = "load" /\ fgiven = S("a?b?")
    /\ fragment.path.segments = <<S("a?b?")>> /\ fragment.query = <<>>

\* The rendering <out> of a fragment whose path renders as <path> and
\* whose query renders as <query>.
FragmentRendering(fr, path, query, out) ==
    /\ (Len(path) > 0 /\ Len(query) > 0 /\ fr.separator) => out = path \o S("?") \o query
    /\ (Len(path) > 0 /\ Len(query) > 0 /\ ~fr.separator) =>
          out = Replace(path, S("%3F"), S("?")) \o query
    /\ (Len(path) > 0 /\ Len(query) = 0) => out = Replace(path, S("%3F"), S("?"))
    /\ Len(path) = 0 => out = query
    /\ ((Len(query) = 0 \/ ~fr.separator)
        /\ \E i \in 1..Len(fr.path.segments) : Contains(fr.path.segments[i], "?")) =>
          /\ Contains(Take(out, Len(out) - Len(query)), "?")
          /\ ~HasSub(Take(out, Len(out) - Len(query)), S("%3F"))

\* C16: fragment rendering: with path and query both non-empty the result
\* is path + '?' + query when separator is true and path + query when it is
\* false; with only one of them non-empty it is that part alone; and when
\* the query is empty or separator is false, a '?' inside a path segment is
\* rendered as a literal '?', not as '%3F'.
C16_FragmentRendering ==
    FragmentRendering(fragment, Path_str(fragment.path, Fragment_force_absolute),
                      Query_str(fragment.query), Fragment_str(fragment))

\* A path with a '?' and a query, joined without separator.
C16_Witness ==
    /\ ~fragment.separator
    /\ fragment.path.segments = <<S("a?b")>>
    /\ fragment.query = << <<S("k"), S("v")>> >>
    /\ Fragment_str(fragment) = S("a?bk=v")

\* Netloc, path, query and fragment of f all render as nothing.
AllEmpty(f) ==
    /\ Furl_netloc(f) \in {None, <<>>}
    /\ Path_str(f.path, Furl_force_absolute(f)) = <<>>
    /\ Query_str(f.query) = <<>>
    /\ Fragment_str(f.fragment) = <<>>

\* C17: URL rendering corrections: with a scheme and with netloc, path,
\* query and fragment all empty the URL renders as '<scheme>://'; without a
\* scheme the rendered URL begins with '//' only if the encoded path itself
\* begins with '//'.
C17_RenderingCorrections ==
    /\ (furl.scheme # None /\ AllEmpty(furl)) => Furl_str(furl) = furl.scheme \o S("://")
    /\ (furl.scheme = None /\ StartsWith(Furl_str(furl), S("//"))) =>
          StartsWith(Path_str(furl.path, Furl_force_absolute(furl)), S("//"))

\* A URL without a scheme whose netloc was set: the '//' in front of the
\* netloc is not rendered.
C17_Witness ==
    /\ furl.scheme = None /\ last = "netloc" /\ err = "none"
    /\ Furl_str(furl) = S("yahoo.com:99/p")

\* A URL that is its scheme alone.
C17_SchemeAlone ==
    furl.scheme = S("ftp") /\ AllEmpty(furl) /\ Furl_str(furl) = S("ftp://")

\* A host written as an IPv6 literal.
IsIPv6Literal(host) == Contains(host, "[") \/ Contains(host, "]")

\* C18: lowercase invariant: after any sequence of Furl operations (load,
\* the netloc setter, set with scheme, host or netloc, ...) the scheme is
\* absent or all lower-case, and a host that is not an IPv6 literal is absent
\* or all lower-case.
C18_Lowercase ==
    /\ furl.scheme = None \/ furl.scheme = Lower(furl.scheme)
    /\ furl.host = None \/ IsIPv6Literal(furl.host) \/ furl.host = Lower(furl.host)

\* Every parameter of the call a is acceptable on its own.
AcceptableCall(a) ==
    /\ ~InvalidPortCall(a)
    /\ a.netloc = Absent \/ ~MalformedNetloc(a.netloc)
    /\ a.host = Absent \/ ~MalformedNetloc(a.host)

\* The query the last given of query, args, query_params spells.
LastQuery(a) ==
    IF a.query_params # AbsentItems THEN a.query_params
    ELSE IF a.args # AbsentItems THEN a.args
    ELSE parse_qsl(a.query)

GivenQueries(a) ==
    Cardinality({i \in 1..3 : <<a.query # Absent, a.args # AbsentItems,
                                a.query_params # AbsentItems>>[i]})

\* What the call a of set left in f, and how it ended.
LaterWins(a, f, e) ==
    /\ (a.netloc # Absent /\ a.host # Absent) => (e = "none" /\ f.host = a.host)
    /\ (a.netloc # Absent /\ a.port \notin {Absent, None}) =>
          (e = "none" /\ f.port = ParseInt(a.port))
    /\ GivenQueries(a) >= 2 => (e = "none" /\ f.query = LastQuery(a))
    /\ (a.fragment # Absent /\ a.fragment_path # Absent) =>
          (e = "none" /\ f.fragment.path = Path_load(a.fragment_path, FALSE))
    /\ (a.fragment # Absent /\ a.fragment_args # AbsentItems) =>
          (e = "none" /\ f.fragment.query = a.fragment_args)

\* The calls of set that give overlapping parameters, each acceptable on
\* its own.
OverlappingCalls ==
    {a \in SetInputs :
        /\ AcceptableCall(a)
        /\ \/ a.netloc # Absent /\ (a.host # Absent \/ a.port \notin {Absent, None})
           \/ GivenQueries(a) >= 2
           \/ a.fragment # Absent /\ (a.fragment_path # Absent \/ a.fragment_args # AbsentItems)}

\* The example of the documentation of Furl.set.
SetExample ==
    [NoSetArgs EXCEPT !.netloc = S("yahoo.com:99"), !.host = S("bing.com"), !.port = S("40")]

\* C19: Furl.set with overlapping parameters lets the later parameter win
\* and completes: with netloc and host and/or port, host and port are those
\* of the host and port parameters; with two or more of query, args,
\* query_params, the query is that of the last of them in this order; with
\* fragment and fragment_path or fragment_args, these replace the path and
\* the query loaded from the fragment string.  Stated of calls whose
\* parameters are each acceptable on their own.
C19_LaterWins ==
    /\ Furl_str(Furl_set(Furl(S("http://google.com/")).obj, SetExample).obj)
       = S("http://bing.com:40/")
    /\ [][last' = "set" =>
            \A a \in OverlappingCalls : Set(a) => LaterWins(a, furl', err')]_vars

\* netloc, host and port, three queries and a fragment with its parts were
\* given in one call.
C19_Witness ==
    /\ last = "set" /\ err = "none"
    /\ furl.host = S("bing.com") /\ furl.port = 40
    /\ furl.query = << <<S("z"), S("4")>> >>
    /\ furl.fragment.path.segments = <<S("e")>>
    /\ furl.fragment.query = << <<S("w"), S("5")>> >>

\* StringLikeObject.__eq__ and __hash__ of two objects rendered as a and b:
\* the objects are equal exactly when the strings are, and the hash of an
\* object is the hash of its string.
StringLike_eq(a, b) == a = b

\* A Furl, a Path, a Query and a Fragment restored from their saved state
\* and rendered: a new object of the class, then load(state).
Furl_restored(state) ==
    With(Furl(state), LAMBDA r : IF r.err = "none" THEN Furl_str(r.obj) ELSE <<"raised", r.err>>)

Path_restored(state) == Path_str(Path_load(state, FALSE), FALSE)

Query_restored(state) == Query_str(Query_load(state))

Fragment_restored(state) == Fragment_str(Fragment_load(EmptyFragment, state))

\* C20: every string-like object restored from its saved state, that is
\* load(str(x)) on a new object of the same class, is equal to x: the two
\* render the same string (and so have the same hash).  Stated of the Furl
\* of the machine and of its path, query and fragment as objects of their
\* own.
C20_ReloadEqual ==
    /\ With(Furl_str(furl), LAMBDA x : StringLike_eq(Furl_restored(x), x))
    /\ With(Path_str(furl.path, Furl_force_absolute(furl)),
            LAMBDA x : StringLike_eq(Path_restored(x), x))
    /\ With(Query_str(furl.query), LAMBDA x : StringLike_eq(Query_restored(x), x))
    /\ With(Fragment_str(furl.fragment), LAMBDA x : StringLike_eq(Fragment_restored(x), x))

\* C21: load replaces the whole state: after load(u) succeeds on a Furl in
\* any state, every component (scheme, username, password, host, port, the
\* path's segments and absolute flag, the query's pairs, the fragment's
\* path, query and separator) and the rendered url are those of a newly
\* constructed Furl(u).
C21_LoadReplaces ==
    [][last' = "load" =>
          \A u \in LoadUrls : (Load(u) /\ err' = "none") =>
              /\ furl' = Furl(u).obj
              /\ Furl_str(furl') = Furl_str(Furl(u).obj)]_vars

(***************************************************************************)
(* SpecPath: a Path of its own (owner without a netloc, as a fragment path  *)
(* or Path()) or the path of a URL with a netloc, under load, add, remove   *)
(* with string and list arguments, and assignment of isabsolute.            *)
(***************************************************************************)
MaxPathTokens == 3

MaxPathSegments == 2

PathTokens == {S("a"), S("/"), S("%2541")}

PathStrings == Strs(PathTokens, MaxPathTokens)

\* Strings given to load, add and remove of a path already loaded.
PathExamples == {<<>>, S("b"), S("/b"), S("b/"), S("/"), S("a b?")}

\* Lists of segments given to load, add and remove.
PathLists ==
    {<<>>, << <<>> >>, <<S("b")>>, << <<>>, S("b")>>, <<S("%2541"), <<>> >>, <<S("%25#")>>}

\* _force_absolute(path) of the owner: bool(path) and self.netloc for a URL,
\* always False for a path of its own or a fragment path.
Owner_force_absolute(p, netloc) == netloc /\ Path_nonzero(p)

BoundedPath(p) == Len(p.segments) <= MaxPathSegments

InitPath ==
    /\ pobj = EmptyPath
    /\ powner \in BOOLEAN
    /\ pgiven = <<>>
    /\ plast = "init"
    /\ IdleFurl /\ IdleParse /\ IdleQuery /\ IdleHelper /\ IdleFragment

\* Path(s): the new object loads s
PConstruct(s) ==
    /\ plast = "init"
    /\ pobj' = Path_load(s, Owner_force_absolute(pobj, powner))
    /\ BoundedPath(pobj')
    /\ pgiven' = s
    /\ plast' = "new"
    /\ UNCHANGED powner
    /\ UNCHANGED furlVars
    /\ UNCHANGED parseVars
    /\ UNCHANGED queryVars
    /\ UNCHANGED helperVars
    /\ UNCHANGED fragVars

\* p.load(s) for a path string
PLoad(s) ==
    /\ plast # "init"
    /\ pobj' = Path_load(s, Owner_force_absolute(pobj, powner))
    /\ pgiven' = s
    /\ plast' = "load"
    /\ UNCHANGED powner
    /\ UNCHANGED furlVars
    /\ UNCHANGED parseVars
    /\ UNCHANGED queryVars
    /\ UNCHANGED helperVars
    /\ UNCHANGED fragVars

\* p.load(l) for a list of segments
PLoadList(l) ==
    /\ plast # "init"
    /\ pobj' = Path_load_list(l, Owner_force_absolute(pobj, powner))
    /\ pgiven' = l
    /\ plast' = "loadlist"
    /\ UNCHANGED powner
    /\ UNCHANGED furlVars
    /\ UNCHANGED parseVars
    /\ UNCHANGED queryVars
    /\ UNCHANGED helperVars
    /\ UNCHANGED fragVars

\* p.add(s) for a path string
PAdd(s) ==
    /\ plast # "init"
    /\ pobj' = Path_add(pobj, s, Owner_force_absolute(pobj, powner))
    /\ BoundedPath(pobj')
    /\ pgiven' = s
    /\ plast' = "add"
    /\ UNCHANGED powner
    /\ UNCHANGED furlVars
    /\ UNCHANGED parseVars
    /\ UNCHANGED queryVars
    /\ UNCHANGED helperVars
    /\ UNCHANGED fragVars

\* p.add(l) for a list of segments
PAddList(l) ==
    /\ plast # "init"
    /\ pobj' = Path_add_list(pobj, l, Owner_force_absolute(pobj, powner))
    /\ BoundedPath(pobj')
    /\ pgiven' = l
    /\ plast' = "addlist"
    /\ UNCHANGED powner
    /\ UNCHANGED furlVars
    /\ UNCHANGED parseVars
    /\ UNCHANGED queryVars
    /\ UNCHANGED helperVars
    /\ UNCHANGED fragVars

\* p.remove(s) for a path string
PRemove(s) ==
    /\ plast # "init"
    /\ pobj' = Path_remove(pobj, s, Owner_force_absolute(pobj, powner))
    /\ pgiven' = s
    /\ plast' = "remove"
    /\ UNCHANGED powner
    /\ UNCHANGED furlVars
    /\ UNCHANGED parseVars
    /\ UNCHANGED queryVars
    /\ UNCHANGED helperVars
    /\ UNCHANGED fragVars

\* p.remove(l) for a list of segments
PRemoveList(l) ==
    /\ plast # "init"
    /\ pobj' = Path_remove_list(pobj, l, Owner_force_absolute(pobj, powner))
    /\ pgiven' = l
    /\ plast' = "removelist"
    /\ UNCHANGED powner
    /\ UNCHANGED furlVars
    /\ UNCHANGED parseVars
    /\ UNCHANGED queryVars
    /\ UNCHANGED helperVars
    /\ UNCHANGED fragVars

\* p.remove(True)
PRemoveAll ==
    /\ plast # "init"
    /\ pobj' = Path_remove_all(pobj, Owner_force_absolute(pobj, powner))
    /\ pgiven' = <<>>
    /\ plast' = "removeall"
    /\ UNCHANGED powner
    /\ UNCHANGED furlVars
    /\ UNCHANGED parseVars
    /\ UNCHANGED queryVars
    /\ UNCHANGED helperVars
    /\ UNCHANGED fragVars

\* p.isabsolute = b, where the owner does not force it (the assignment
\* raises AttributeError and changes nothing where it does)
PSetIsAbsolute(b) ==
    /\ plast # "init"
    /\ \E r \in {Path_set_isabsolute(pobj, b, Owner_force_absolute(pobj, powner))} :
            r.err = "none" /\ pobj' = r.obj
    /\ pgiven' = <<>>
    /\ plast' = "isabsolute"
    /\ UNCHANGED powner
    /\ UNCHANGED furlVars
    /\ UNCHANGED parseVars
    /\ UNCHANGED queryVars
    /\ UNCHANGED helperVars
    /\ UNCHANGED fragVars

NextPath ==
    \/ \E s \in PathStrings : PConstruct(s)
    \/ \E s \in PathExamples : PLoad(s)
    \/ \E l \in PathLists : PLoadList(l)
    \/ \E s \in PathExamples : PAdd(s)
    \/ \E l \in PathLists : PAddList(l)
    \/ \E s \in PathExamples : PRemove(s)
    \/ \E l \in PathLists : PRemoveList(l)
    \/ PRemoveAll
    \/ \E b \in BOOLEAN : PSetIsAbsolute(b)

SpecPath == InitPath /\ [][NextPath]_vars

\* The characters RFC 3986 lets a path show as they are: unreserved, the
\* path-safe ones, and the '/' between segments.
PathLegalChars ==
    Letters \cup Digits
        \cup {"-", ".", "_", "~", ":", "@", "!", "$", "&", "'", "(", ")", "*", "+", ",", ";",
              "=", "/"}

\* s shows legal characters and well-formed %XX escapes only.
LegalPath(s) ==
    \A i \in 1..Len(s) :
        IF s[i] = "%"
        THEN i + 2 <= Len(s) /\ s[i + 1] \in HexChars /\ s[i + 2] \in HexChars
        ELSE s[i] \in PathLegalChars

\* C22: in every state of a Path reached by load, add and remove with string
\* and list arguments, the rendered path consists of unreserved characters,
\* the path-safe characters, '/' and well-formed %XX escapes only; every
\* other character of a segment is rendered percent-encoded.
C22_LegalRendering == LegalPath(Path_str(pobj, Owner_force_absolute(pobj, powner)))

\* The tokens of the path string s, each percent-decoded one time (the
\* empty string has no token).
DecodedOnce(s) ==
    IF Len(s) = 0 THEN <<>>
    ELSE With(Split(s, "/"), LAMBDA toks : [i \in 1..Len(toks) |-> unquote(toks[i])])

\* What load of the string s leaves in the path p, whose owner forced
\* absoluteness or not when the load began.
LoadedOnce(p, s, forced) ==
    With(DecodedOnce(s), LAMBDA toks :
        IF forced
        THEN p.segments \in {toks, IF Len(toks) > 1 THEN Tail(toks) ELSE toks}
        ELSE /\ p._isabsolute = StartsWith(s, <<"/">>)
             /\ p.segments = IF StartsWith(s, <<"/">>) /\ Len(toks) > 1 THEN Tail(toks) ELSE toks)

\* C23: Path.load of a string decodes once: the string is split on '/',
\* each token is percent-decoded exactly one time and stored as a segment
\* ('%2541' is stored as '%41'); when the path is not force-absolute,
\* isabsolute becomes true exactly when the string started with '/', and
\* then the leading empty token is not stored.
C23_DecodesOnce ==
    [][plast' \in {"new", "load"} =>
          LoadedOnce(pobj', pgiven', Owner_force_absolute(pobj, powner))]_vars

\* C24: Path.add(x) leaves the segments equal to the join of the old
\* segments and the segments of x under the segment-join algorithm: every
\* segment the path had is still there, unchanged in content and order
\* (apart from the one empty segment the join merges at the boundary), and
\* the new segments follow.
C24_AddJoins ==
    [][plast' \in {"add", "addlist"} =>
          pobj'.segments =
              DocumentedJoin(pobj.segments,
                             IF plast' = "add" THEN DecodedOnce(pgiven') ELSE pgiven')]_vars

\* The argument x of add is relative: a string that does not start with
\* '/', or a list that does not start with ''.
RelativeArg(x, kind) ==
    IF kind = "add" THEN ~StartsWith(x, <<"/">>)
    ELSE Len(x) = 0 \/ x[1] # <<>>

\* C27: Path.add preserves absoluteness: for a path that is not
\* force-absolute and has at least one segment, add(x) with a relative x
\* leaves isabsolute unchanged, so '/a' still renders with its leading '/'
\* after add('b').
C27_AddKeepsAbsolute ==
    [][(/\ plast' \in {"add", "addlist"}
        /\ ~Owner_force_absolute(pobj, powner)
        /\ Len(pobj.segments) >= 1
        /\ RelativeArg(pgiven', plast')) =>
            /\ Path_isabsolute(pobj', Owner_force_absolute(pobj', powner))
               = Path_isabsolute(pobj, Owner_force_absolute(pobj, powner))
            /\ StartsWith(Path_str(pobj', Owner_force_absolute(pobj', powner)), <<"/">>)
               = StartsWith(Path_str(pobj, Owner_force_absolute(pobj, powner)), <<"/">>)]_vars

\* The netloc ends with ':' and an invalid port.
CarriesInvalidPort(netloc) == \E p \in InvalidPorts : EndsWith(netloc, <<":">> \o p)

InvalidPortNetlocs == {n \in Netlocs : CarriesInvalidPort(n)}

InvalidPortUrls ==
    {u \in LoadUrls : urlsplit(u).err = "none" /\ CarriesInvalidPort(urlsplit(u).netloc)}

InvalidPortCalls == {a \in SetInputs : InvalidPortCall(a)}

\* C25: every rejection of an invalid port is signalled with ValueError:
\* whether the port arrives through the port setter, the netloc setter,
\* load or Furl.set (port and/or netloc), and from every prior state, the
\* error that escapes the call is ValueError and no other.
C25_InvalidPortError ==
    [][(/\ \/ last' = "port" /\ \E p \in Ports \cap InvalidPorts : SetPort(p)
           \/ last' = "netloc" /\ \E n \in InvalidPortNetlocs : SetNetloc(n)
           \/ last' = "load" /\ \E u \in InvalidPortUrls : Load(u)
           \/ last' = "set" /\ \E a \in InvalidPortCalls : Set(a)
        /\ err' # "none") => err' = "ValueError"]_vars

\* C26: truthiness agrees with the rendered string: a Path, a Query and a
\* Fragment are truthy exactly when their rendered string is not empty, in
\* every state (also after isabsolute is assigned on the path).
C26_TruthyIffRendered ==
    /\ Path_nonzero(furl.path) <=> Path_str(furl.path, Furl_force_absolute(furl)) # <<>>
    /\ Query_nonzero(furl.query) <=> Query_str(furl.query) # <<>>
    /\ Fragment_nonzero(furl.fragment) <=> Fragment_str(furl.fragment) # <<>>
    /\ Path_nonzero(furl.fragment.path)
       <=> Path_str(furl.fragment.path, Fragment_force_absolute) # <<>>
    /\ Query_nonzero(furl.fragment.query) <=> Query_str(furl.fragment.query) # <<>>

(***************************************************************************)
(* SpecEncode: q = Query(qgiven); qencoded = q.encode(qdelim);             *)
(* q.load(qencoded), for each list of pairs of strings and each delimiter. *)
(***************************************************************************)
MaxEncPairs == 2

EncKeys == {<<>>, S("a b"), S("&="), S("+%"), S(";#")}

EncValues == {<<>>, S("a"), S(";#"), S("=%"), S("+ ")}

EncPairs == {<<k, v>> : k \in EncKeys, v \in EncValues}

EncLists == Strs({<<pr>> : pr \in EncPairs}, MaxEncPairs)

InitEncode ==
    /\ qgiven \in EncLists
    /\ qdelim \in {<<"&">>, <<";">>}
    /\ qencoded = <<>>
    /\ params = <<>>
    /\ qlast = "init"
    /\ IdleFurl /\ IdleParse /\ IdleHelper /\ IdleFragment /\ IdlePath

\* q = Query(qgiven)
EConstruct ==
    /\ qlast = "init"
    /\ params' = Query_load_list(qgiven)
    /\ qlast' = "new"
    /\ UNCHANGED encVars
    /\ UNCHANGED furlVars
    /\ UNCHANGED parseVars
    /\ UNCHANGED helperVars
    /\ UNCHANGED fragVars
    /\ UNCHANGED pathVars

\* qencoded = q.encode(qdelim)
EEncode ==
    /\ qlast = "new"
    /\ qencoded' = Query_encode(params, qdelim)
    /\ qlast' = "encoded"
    /\ UNCHANGED <<params, qgiven, qdelim>>
    /\ UNCHANGED furlVars
    /\ UNCHANGED parseVars
    /\ UNCHANGED helperVars
    /\ UNCHANGED fragVars
    /\ UNCHANGED pathVars

\* q.load(qencoded)
EReload ==
    /\ qlast = "encoded"
    /\ params' = Query_load(qencoded)
    /\ qlast' = "reloaded"
    /\ UNCHANGED encVars
    /\ UNCHANGED furlVars
    /\ UNCHANGED parseVars
    /\ UNCHANGED helperVars
    /\ UNCHANGED fragVars
    /\ UNCHANGED pathVars

NextEncode == EConstruct \/ EEncode \/ EReload

SpecEncode == InitEncode /\ [][NextEncode]_vars

\* C28: for every ordered list q of (key, value) pairs of strings (empty
\* keys and values, and '&', ';', '=', '+', '#', '%' and space among the
\* characters), loading the string Query.encode produces, with delimiter
\* '&' or ';', yields the same ordered list of pairs: load(encode(q)) = q.
C28_EncodeLoadRoundTrip == qlast = "reloaded" => params = qgiven

\* Two pairs with reserved characters went through ';' and came back.
C28_Witness ==
    /\ qlast = "reloaded"
    /\ qdelim = <<";">>
    /\ params = << <<S("&="), S(";#")>>, <<S("+%"), S("+ ")>> >>
    /\ qencoded = S("%26%3D=%3B%23;%2B%25=%2B+")

=============================================================================
